---- MODULE Spec2Model ----
(***************************************************************************)
(* Car maintenance app: reminder classification (NotificationsScreen and   *)
(* ManageRemindersScreen), the load/dismiss/complete life cycle of the     *)
(* two reminder screens, the dashboard statistics                          *)
(* (DatabaseService.getDashboardStats), the workshop search, the data      *)
(* export and the login by e-mail address or username (AuthService).       *)
(*                                                                         *)
(* Time is counted in whole hours since 00:00 UTC of day 0; a calendar     *)
(* date "YYYY-MM-DD" is the number of its day.  A JavaScript Date is the   *)
(* instant it holds (or NaN).                                              *)
(*                                                                         *)
(* Left out: the car lookup that only fills a card's car name, the pull-   *)
(* to-refresh flag, the form's validation failures (a rejected form writes *)
(* nothing), the deletion of reminders, the status filter and the search   *)
(* box of the Manage Reminders screen, the map of the workshop screen,     *)
(* and every collection and screen not named above.                        *)
(***************************************************************************)
EXTENDS Integers, Sequences, FiniteSets, TLC

(* ------------------------------ bounds --------------------------------- *)
\* last calendar day of the modelled window (days 0..MaxDay)
MaxDay == 4
\* largest "notify before" number of days entered in the form
MaxNotify == 3
\* most documents in the 'maintenance' collection
MaxRecords == 2
\* most documents in the 'oilChanges' collection
MaxOilRecords == 1
\* most documents in the 'reminders' collection
MaxReminders == 1
\* most loadReminders calls in flight at once
MaxLoads == 1
\* how many times the clock advances (by half a day) in a run of Spec
MaxTicks == 1
\* most handler calls of the Manage Reminders screen in flight at once
MaxCalls == 2
\* most places the Places search returns
MaxPlaces == 3
\* most registered users
MaxUsers == 2
\* most documents of the 'reminders' collection when one load is looked at
MaxFetched == 3
\* loadReminders calls of the Notifications screen in flight at once when
\* overlapping loads are followed
MaxOverlap == 2
\* accounts that can be registered, and onAuthStateChanged callbacks in flight
MaxAccounts == 2
MaxCallbacks == 2
\* getPlaceDetails calls in flight at once
MaxDetailRequests == 2
\* photos uploaded in a run, and photo handlers in flight at once
MaxPhotos == 2
MaxPhotoOps == 2
\* most characters of a typed username
MaxNameLen == 2

(* ------------------------- program constants --------------------------- *)
\* 1000 * 60 * 60 * 24 milliseconds, in hours
HoursPerDay == 24
\* reminder.notifyBefore || 1
DefaultNotifyBefore == 1
\* 30 * 24 * 60 * 60 * 1000 milliseconds, in days
ThirtyDays == 30
\* (a.distance || 999), in kilometres
MissingDistance == 999

VARIABLES
    zone,       \* the device's time zone (fixed for a run)
    now,        \* the device clock: what new Date() returns, in hours UTC
    reminder,   \* ClassifySpec: the reminder handed to calculateReminderStatus
    result,     \* ClassifySpec: <<>> before the call, <<r>> after it returned r
    manageStatus,   \* BucketSpec: <<>> or <<what getReminderStatus returned>>
    dbCars,         \* Firestore collection 'cars'
    dbMaintenance,  \* Firestore collection 'maintenance'
    dbOilChanges,   \* Firestore collection 'oilChanges'
    stats,          \* <<>> before getDashboardStats returned, <<s>> after
    fetchOk,        \* which of the three fetches of that call succeeded
    dbReminders,    \* Firestore collection 'reminders': id -> <<>> or <<document>>
    notifications,  \* NotificationsScreen state: the list shown
    loading,        \* NotificationsScreen state: the spinner replaces the list
    loads,          \* the loadReminders calls in flight, by slot
    alert,          \* the text of the last Alert.alert shown ("" when none)
    lastFetched,    \* history: <<>> or <<the reminders of the last completed load>>
    manageReminders,  \* ManageRemindersScreen state 'reminders': the list held
    manageLoading,    \* ManageRemindersScreen state 'loading'
    calls,            \* ManageRemindersScreen: the handler calls in flight, by slot
    places,       \* WorkshopFinderScreen: the filtered results of the Places search
    workshops,    \* WorkshopFinderScreen state 'workshops'
    searched,     \* WorkshopFinderScreen: a search has run to its end
    exportData,   \* dataExport: <<>> before an export, <<the export object>> after
    users,        \* Firestore collection 'users', in the order of a query's docs
    session,      \* AuthService: <<>> or <<the outcome of the last signIn call>>
    accounts,       \* Firebase Authentication: the uids that have an account
    userDocs,       \* Firestore collection 'users': the uids that have a document
    currentUser,    \* auth.currentUser: <<>> (null) or <<uid>>
    user,           \* AuthContext state 'user': <<>> (null) or <<uid>>
    authCallbacks,  \* the onAuthStateChanged callbacks in flight, by slot
    authOp,         \* the AuthContext operation in flight
    authDone,       \* history: <<>> or <<how the last AuthContext operation ended>>
    selectedWorkshop,  \* WorkshopFinderScreen state 'selectedWorkshop'
    detailRequests,    \* the getPlaceDetails calls in flight, by slot
    storage,        \* Firebase Storage: the objects that exist, by download URL
    imageUrls,      \* the car document's field imageUrls
    car,            \* CarDetailsScreen state 'car': the imageUrls shown
    uploadingImage, \* CarDetailsScreen state 'uploadingImage'
    deletingImage,  \* CarDetailsScreen state 'deletingImage': <<>> or <<url>>
    photoOps,       \* the photo handlers in flight, by slot
    uploads,        \* the number of uploads made (Date.now() names each one)
    reminderDoc,    \* EditReminderScreen: the stored document being edited
    editForm,       \* history: <<>> or <<the form of the last edit>>
    editAlert       \* EditReminderScreen: "" or the title of the Alert shown

clockVars == <<zone, now>>
classifyVars == <<reminder, result, manageStatus>>
dashVars == <<dbCars, dbMaintenance, dbOilChanges, stats, fetchOk>>
screenVars == <<dbReminders, notifications, loading, loads, alert, lastFetched>>
manageVars == <<manageReminders, manageLoading, calls>>
workshopVars == <<places, workshops, searched>>
\* the variables of the screens that no reminder or dashboard step touches
authVars == <<users, session>>
contextVars == <<accounts, userDocs, currentUser, user, authCallbacks, authOp, authDone>>
finderVars == <<selectedWorkshop, detailRequests>>
photoVars == <<storage, imageUrls, car, uploadingImage, deletingImage, photoOps, uploads>>
editVars == <<reminderDoc, editForm, editAlert>>
liveVars == <<contextVars, finderVars, photoVars, editVars>>
auxVars == <<workshopVars, exportData, authVars, liveVars>>
vars == <<zone, now, reminder, result, manageStatus, dbCars, dbMaintenance, dbOilChanges,
          stats, fetchOk, dbReminders, notifications, loading, loads, alert,
          lastFetched, manageReminders, manageLoading, calls, places,
          workshops, searched, exportData, users, session, accounts, userDocs,
          currentUser, user, authCallbacks, authOp, authDone, selectedWorkshop,
          detailRequests, storage, imageUrls, car, uploadingImage, deletingImage,
          photoOps, uploads, reminderDoc, editForm, editAlert>>

(* ------------------------- JavaScript Date ----------------------------- *)
\* A time zone: standard offset from UTC in hours, and the UTC instants
\* between which daylight saving time (one more hour) is in force.
NoDst(std) == [std |-> std, dstFrom |-> 0, dstTo |-> 0]

\* A zone whose clocks go forward at 01:00 UTC of day 1 and back at 01:00 UTC
\* of day 3 (the European rule: the change is at 01:00 UTC).
DstZone == [std |-> 1, dstFrom |-> HoursPerDay + 1, dstTo |-> 3 * HoursPerDay + 1]

Zones == {NoDst(0), NoDst(2), NoDst(-5), DstZone}

\* LocalTZA(t, true): the offset in force at UTC instant t
Offset(z, t) == z.std + (IF z.dstFrom <= t /\ t < z.dstTo THEN 1 ELSE 0)

\* the local calendar day of instant t (getFullYear/getMonth/getDate)
LocalDay(z, t) == (t + Offset(z, t)) \div HoursPerDay

\* Date.prototype.setHours(0, 0, 0, 0): the instant of local midnight of the
\* local day of t
SetHoursZero(z, t) ==
    CHOOSE u \in (t - HoursPerDay - 2)..t :
        u + Offset(z, u) = LocalDay(z, t) * HoursPerDay

\* Math.ceil(a / b) for b > 0 (JavaScript's -0 is the integer 0: -0 < 0 is
\* false and -0 === 0 is true)
CeilDiv(a, b) == -((-a) \div b)

\* A stored reminderDate string: "YYYY-MM-DD" of day d, a string that is no
\* date, or the empty string / a missing field.
Ymd(d) == [kind |-> "ymd", day |-> d]
Garbage == [kind |-> "garbage", day |-> 0]
Empty == [kind |-> "empty", day |-> 0]

\* new Date(s): a date-only ISO string is midnight UTC of that day; anything
\* else that does not parse is an Invalid Date (getTime() is NaN)
NewDate(s) ==
    IF s.kind = "ymd" THEN [nan |-> FALSE, t |-> s.day * HoursPerDay]
    ELSE [nan |-> TRUE, t |-> 0]

\* an optional number: <<>> is undefined, <<n>> is n
Undefined == <<>>
Some(n) == <<n>>

\* x || d for an optional number x: undefined and 0 are falsy
OrDefault(x, d) == IF x = Undefined \/ x[1] = 0 THEN d ELSE x[1]

Abs(n) == IF n < 0 THEN -n ELSE n

(* ---------------------- calculateReminderStatus ------------------------ *)
\* message: the text and the number it carries
Message(status, daysUntil) ==
    CASE status = "overdue" -> [text |-> "Overdue by", days |-> Abs(daysUntil)]
      [] status = "due_today" -> [text |-> "Due today", days |-> 0]
      [] OTHER -> [text |-> "Due in", days |-> daysUntil]

\* daysUntil of lines 95-104, for a reminderDate that parses
DaysUntil(s, z, t) ==
    CeilDiv(SetHoursZero(z, NewDate(s).t) - SetHoursZero(z, t), HoursPerDay)

StatusOf(daysUntil, notifyBefore) ==
    IF daysUntil < 0 THEN "overdue"
    ELSE IF daysUntil = 0 THEN "due_today"
    ELSE IF daysUntil <= OrDefault(notifyBefore, DefaultNotifyBefore) THEN "due_soon"
    ELSE "upcoming"

\* calculateReminderStatus(reminder) evaluated at instant t in zone z:
\* <<>> for null, <<n>> for the notification n
calculateReminderStatus(r, z, t) ==
    IF r.id = "" \/ r.reminderDate.kind = "empty" THEN <<>>
    ELSE IF NewDate(r.reminderDate).nan THEN <<>>
    ELSE LET d == DaysUntil(r.reminderDate, z, t)
             st == StatusOf(d, r.notifyBefore)
         IN  << [id |-> r.id, reminder |-> r, status |-> st, daysUntil |-> d,
                 message |-> Message(st, d)] >>

\* the variables of the dashboard when no dashboard call is modelled
DashIdle ==
    /\ dbCars = <<>>
    /\ dbMaintenance = <<>>
    /\ dbOilChanges = <<>>
    /\ stats = <<>>
    /\ fetchOk = [cars |-> TRUE, maintenance |-> TRUE, oilChanges |-> TRUE]

(* ------------------ the reminders collection and screen ---------------- *)
AllIds == <<"r1", "r2", "r3", "r4">>
ReminderIds == {AllIds[i] : i \in 1..MaxReminders}
IdRank(id) == CHOOSE i \in DOMAIN AllIds : AllIds[i] = id
LoadSlots == 1..MaxLoads
IdleLoad == [pc |-> "idle", reminders |-> <<>>]

\* the variables of the Notifications screen when it is not modelled
ScreenIdle ==
    /\ dbReminders = [id \in ReminderIds |-> <<>>]
    /\ notifications = <<>>
    /\ loading = TRUE
    /\ loads = [c \in LoadSlots |-> IdleLoad]
    /\ alert = ""
    /\ lastFetched = <<>>

CallSlots == 1..MaxCalls
IdleCall == [pc |-> "idle", id |-> "", status |-> ""]

\* the variables of the Manage Reminders screen when it is not modelled
ManageIdle ==
    /\ manageReminders = <<>>
    /\ manageLoading = TRUE
    /\ calls = [c \in CallSlots |-> IdleCall]

\* the variables of the Workshop Finder screen when it is not modelled
WorkshopIdle ==
    /\ places = <<>>
    /\ workshops = <<>>
    /\ searched = FALSE

\* no export has been made
ExportIdle == exportData = <<>>

\* nobody is registered and no sign-in has been made
AuthIdle == users = <<>> /\ session = <<>>

CallbackSlots == 1..MaxCallbacks
IdleCallback == [pc |-> "idle", uid |-> "", found |-> FALSE]
\* had: the profile document existed when the operation began
IdleAuthOp == [pc |-> "idle", uid |-> "", had |-> FALSE]

\* the AuthContext before anybody registered
ContextIdle ==
    /\ accounts = {}
    /\ userDocs = {}
    /\ currentUser = <<>>
    /\ user = <<>>
    /\ authCallbacks = [c \in CallbackSlots |-> IdleCallback]
    /\ authOp = IdleAuthOp
    /\ authDone = <<>>

DetailSlots == 1..MaxDetailRequests
IdleRequest == [pc |-> "idle", id |-> ""]

\* no workshop is selected
FinderIdle ==
    /\ selectedWorkshop = <<>>
    /\ detailRequests = [c \in DetailSlots |-> IdleRequest]

PhotoSlots == 1..MaxPhotoOps
IdlePhotoOp == [pc |-> "idle", url |-> 0]

\* a car without photos, its screen not yet loaded
PhotoIdle ==
    /\ storage = {}
    /\ imageUrls = {}
    /\ car = {}
    /\ uploadingImage = FALSE
    /\ deletingImage = <<>>
    /\ photoOps = [c \in PhotoSlots |-> IdlePhotoOp]
    /\ uploads = 0

\* no reminder is being edited
EditIdle ==
    /\ reminderDoc = <<>>
    /\ editForm = <<>>
    /\ editAlert = ""

LiveIdle == ContextIdle /\ FinderIdle /\ PhotoIdle /\ EditIdle

AuxIdle == WorkshopIdle /\ ExportIdle /\ AuthIdle /\ LiveIdle

(* --------------------------- ClassifySpec ------------------------------ *)
Days == 0..MaxDay
Instants == 0..((MaxDay + 1) * HoursPerDay - 1)
DateStrings == {Ymd(d) : d \in Days} \cup {Garbage, Empty}
NotifyValues == {Undefined} \cup {Some(n) : n \in 0..MaxNotify}

ClassifyInputs ==
    [id : {"r1"}, reminderDate : DateStrings, notifyBefore : NotifyValues,
     status : {"pending"}]

ClassifyInit ==
    /\ zone \in Zones
    /\ now \in Instants
    /\ reminder \in ClassifyInputs
    /\ result = <<>>
    /\ manageStatus = <<>>
    /\ DashIdle
    /\ ScreenIdle
    /\ ManageIdle
    /\ AuxIdle

\* one call of calculateReminderStatus(reminder)
Classify ==
    /\ result = <<>>
    /\ result' = << calculateReminderStatus(reminder, zone, now) >>
    /\ UNCHANGED <<zone, now, reminder, manageStatus>>
    /\ UNCHANGED dashVars
    /\ UNCHANGED screenVars
    /\ UNCHANGED manageVars
    /\ UNCHANGED auxVars

\* how much later a second call comes: at once, an hour, half a day, a day
ClockSteps == {0, 1, HoursPerDay \div 2, HoursPerDay}

\* a later call of calculateReminderStatus(reminder) with the same argument:
\* it reads new Date() again
ClassifyAgain ==
    /\ result # <<>>
    /\ \E step \in ClockSteps :
          /\ now + step \in Instants
          /\ now' = now + step
          /\ result' = << calculateReminderStatus(reminder, zone, now + step) >>
    /\ UNCHANGED <<zone, reminder, manageStatus>>
    /\ UNCHANGED dashVars
    /\ UNCHANGED screenVars
    /\ UNCHANGED manageVars
    /\ UNCHANGED auxVars

ClassifyNext == Classify \/ ClassifyAgain

ClassifySpec == ClassifyInit /\ [][ClassifyNext]_vars

(* ---------------------------- BucketSpec ------------------------------- *)
\* ManageRemindersScreen.getReminderStatus(reminder) evaluated at instant t in
\* zone z.  A date that does not parse makes diffDays NaN, every comparison
\* false, and the function returns 'upcoming'.
getReminderStatus(r, z, t) ==
    IF r.status # "pending" THEN r.status
    ELSE IF NewDate(r.reminderDate).nan THEN "upcoming"
    ELSE LET diffDays == DaysUntil(r.reminderDate, z, t)
         IN  IF diffDays < 0 THEN "overdue"
             ELSE IF diffDays = 0 THEN "today"
             ELSE IF /\ r.notifyBefore # Undefined
                     /\ r.notifyBefore[1] # 0
                     /\ diffDays <= r.notifyBefore[1] THEN "due_soon"
             ELSE "upcoming"

\* the Manage Reminders screen renders the chip of the reminder
GetReminderStatus ==
    /\ manageStatus = <<>>
    /\ manageStatus' = << getReminderStatus(reminder, zone, now) >>
    /\ UNCHANGED <<zone, now, reminder, result>>
    /\ UNCHANGED dashVars
    /\ UNCHANGED screenVars
    /\ UNCHANGED manageVars
    /\ UNCHANGED auxVars

\* both screens classify the same reminder at the same moment
BucketNext == Classify \/ GetReminderStatus

BucketSpec == ClassifyInit /\ [][BucketNext]_vars

(* ------------------- claims on calculateReminderStatus ----------------- *)
\* the call has returned a notification (the date parsed)
Classified == result # <<>> /\ result[1] # <<>>
Notif == result[1][1]
\* the device's current local calendar date
Today == LocalDay(zone, now)
\* N of the specification: the stored notifyBefore, 1 only when it is absent
WindowOf(r) == IF r.notifyBefore = Undefined THEN 1 ELSE r.notifyBefore[1]

\* The status rule of C1 alone, on the daysUntil the function computed:
\* 0 < daysUntil <= N gives due_soon.
C1_StatusRule ==
    (Classified /\ 0 < Notif.daysUntil /\ Notif.daysUntil <= WindowOf(reminder))
        => Notif.status = "due_soon"

\* C1: for every pending reminder with a valid date and every current date,
\* 0 < daysUntil <= N (N = notifyBefore, 1 when absent) gives due_soon; and
\* a reminder dated two days after today with N = 2 gives due_soon with
\* daysUntil = 2.
C1_DueSoon ==
    /\ C1_StatusRule
    /\ (Classified /\ reminder.notifyBefore = Some(2)
            /\ reminder.reminderDate.day = Today + 2)
        => (Notif.status = "due_soon" /\ Notif.daysUntil = 2)

\* C2: daysUntil > N gives upcoming, N being the stored notifyBefore when it
\* is present (0 included) and 1 only when it is absent.
C2_Upcoming ==
    (Classified /\ Notif.daysUntil > WindowOf(reminder))
        => Notif.status = "upcoming"

\* C3: a reminder whose date is before the current date is overdue with a
\* negative daysUntil, and daysUntil = -1 when the date is yesterday.
C3_Overdue ==
    (Classified /\ reminder.reminderDate.day < Today)
        => /\ Notif.status = "overdue"
           /\ Notif.daysUntil < 0
           /\ (reminder.reminderDate.day = Today - 1 => Notif.daysUntil = -1)

\* C4: a reminder whose date is the current date is due_today with
\* daysUntil = 0, whatever its notifyBefore.
C4_DueToday ==
    (Classified /\ reminder.reminderDate.day = Today)
        => (Notif.status = "due_today" /\ Notif.daysUntil = 0)

\* C5: daysUntil is the number of whole calendar days from the device's
\* local date to the stored date, at every time of day and UTC offset.
C5_WholeDays ==
    Classified => Notif.daysUntil = reminder.reminderDate.day - Today

\* two consecutive calls with the same reminder returned the same status and
\* daysUntil (or both returned null)
SameResult ==
    \/ result[1] = <<>> /\ result'[1] = <<>>
    \/ /\ result[1] # <<>> /\ result'[1] # <<>>
       /\ result'[1][1].status = result[1][1].status
       /\ result'[1][1].daysUntil = result[1][1].daysUntil

\* C16: the classification is a function of its explicit inputs only: two
\* evaluations with the same reminder (date and notifyBefore) return the
\* same status and daysUntil, whatever the ambient clock reads, and change
\* nothing but the returned value.
C16_ExplicitInputsOnly ==
    [][ (result # <<>> /\ result' # <<>> /\ reminder' = reminder) => SameResult ]_vars

\* What does hold of two evaluations: on the same local calendar date of the
\* device (and in the same time zone) they return the same result.
C16_SameLocalDate ==
    [][ (result # <<>> /\ result' # <<>> /\ reminder' = reminder
            /\ LocalDay(zone, now') = LocalDay(zone, now)) => SameResult ]_vars

\* the name the Notifications screen gives a bucket of the Manage screen
BucketOf(status) == IF status = "today" THEN "due_today" ELSE status

\* C19: for every pending reminder and every current date the Manage
\* Reminders screen and the Notifications screen put the reminder in the
\* same urgency bucket, a reminder without notifyBefore included.
C19_SameBucket ==
    (Classified /\ manageStatus # <<>>) => BucketOf(manageStatus[1]) = Notif.status

(* -------------------------- getDashboardStats -------------------------- *)
\* the signed-in user whose statistics are computed
UserId == "u1"

\* getUserCars: where('ownerId', '==', userId)
getUserCars(userId) == SelectSeq(dbCars, LAMBDA c : c.ownerId = userId)

\* cars.map(car => car.id), as the set the 'in' filter tests against
CarIdsOf(cars) == {cars[i].id : i \in DOMAIN cars}

\* the records query without the carId filter
getUserMaintenanceRecords_Unfiltered(userId) == dbMaintenance

\* getUserMaintenanceRecords: the records of the user's cars
getUserMaintenanceRecords(userId) ==
    LET carIds == CarIdsOf(getUserCars(userId))
    IN  IF carIds = {} THEN <<>>
        ELSE SelectSeq(dbMaintenance, LAMBDA r : r.carId \in carIds)

\* getUserOilChangeRecords: the oil changes of the user's cars
getUserOilChangeRecords(userId) ==
    LET carIds == CarIdsOf(getUserCars(userId))
    IN  IF carIds = {} THEN <<>>
        ELSE SelectSeq(dbOilChanges, LAMBDA r : r.carId \in carIds)

\* records.reduce((sum, record) => sum + (record.cost || 0), 0)
RECURSIVE SumCost(_)
SumCost(records) ==
    IF records = <<>> THEN 0
    ELSE SumCost(SubSeq(records, 1, Len(records) - 1))
            + OrDefault(records[Len(records)].cost, 0)

\* the total with the oil-change costs forgotten
TotalMaintenanceCost_NoOil(maintenance, oilChanges) == SumCost(maintenance)

TotalMaintenanceCost(maintenance, oilChanges) ==
    SumCost(maintenance) + SumCost(oilChanges)

\* the filter letting a record without nextDueDate through
IsUpcoming_MissingCounts(record, t) ==
    \/ record.nextDueDate.kind = "empty"
    \/ LET dueDate == NewDate(record.nextDueDate)
       IN  ~dueDate.nan /\ dueDate.t <= t + ThirtyDays * HoursPerDay /\ dueDate.t >= t

\* the filter of upcomingMaintenance, with now = t
IsUpcoming(record, t) ==
    /\ record.nextDueDate.kind # "empty"
    /\ LET dueDate == NewDate(record.nextDueDate)
           oneMonthFromNow == t + ThirtyDays * HoursPerDay
       IN  /\ ~dueDate.nan
           /\ dueDate.t <= oneMonthFromNow
           /\ dueDate.t >= t

UpcomingCount(maintenance, t) ==
    Len(SelectSeq(maintenance, LAMBDA r : IsUpcoming(r, t)))

DashboardStats(cars, maintenance, oilChanges, t) ==
    [totalCars |-> Len(cars),
     totalMaintenanceRecords |-> Len(maintenance),
     totalOilChanges |-> Len(oilChanges),
     totalMaintenanceCost |-> TotalMaintenanceCost(maintenance, oilChanges),
     upcomingMaintenance |-> UpcomingCount(maintenance, t)]

(* --------------------------- DashboardSpec ----------------------------- *)
SeqsUpTo(S, n) == UNION {[1..k -> S] : k \in 0..n}

DashZones == {NoDst(0), NoDst(2), NoDst(-5)}
\* hours of day 1 (UTC) in zone z: noon UTC, and the hour before and the
\* hour of local midnight
DashInstants(z) ==
    {HoursPerDay + h :
        h \in {12, (HoursPerDay - z.std - 1) % HoursPerDay, (HoursPerDay - z.std) % HoursPerDay}}
CostValues == {Undefined, Some(15050)}
OilCostValues == {Undefined, Some(4000)}
\* next due dates around the two ends of the window, relative to local date d
DueStrings(d) == {Empty} \cup {Ymd(d + k) : k \in {-1, 0, ThirtyDays, ThirtyDays + 1}}

\* A collection is an unordered set of documents and the statistics do not
\* depend on the order a query returns them in: one order per multiset.
DocRank(doc) ==
    (IF doc.carId = "c1" THEN 0 ELSE 1) + (IF doc.cost = Undefined THEN 0 ELSE 2)
        + (IF doc.nextDueDate.kind = "empty" THEN 0 ELSE 4 * (doc.nextDueDate.day + 2))
RankOrdered(docs) ==
    \A i \in 1..(Len(docs) - 1) : DocRank(docs[i]) <= DocRank(docs[i + 1])

DashInit ==
    /\ zone \in DashZones
    /\ now \in DashInstants(zone)
    /\ reminder = [id |-> "r1", reminderDate |-> Empty, notifyBefore |-> Undefined,
                   status |-> "pending"]
    /\ result = <<>>
    /\ manageStatus = <<>>
    /\ \E o \in {"u1", "u2"} :
          dbCars = << [id |-> "c1", ownerId |-> o], [id |-> "c2", ownerId |-> "u2"] >>
    /\ dbMaintenance \in
          {docs \in SeqsUpTo([carId : {"c1", "c2"}, cost : CostValues,
                              nextDueDate : DueStrings(LocalDay(zone, now))],
                             MaxRecords) : RankOrdered(docs)}
    /\ dbOilChanges \in SeqsUpTo([carId : {"c1"}, cost : OilCostValues], MaxOilRecords)
    /\ stats = <<>>
    /\ fetchOk = [cars |-> TRUE, maintenance |-> TRUE, oilChanges |-> TRUE]
    /\ ScreenIdle
    /\ ManageIdle
    /\ AuxIdle

\* the call with no inner try/catch: a fetch that throws reaches the outer
\* catch, which throws 'Failed to fetch dashboard statistics'
GetDashboardStats_Propagating ==
    /\ stats = <<>>
    /\ \E okCars, okMaintenance, okOil \in BOOLEAN :
          /\ stats' =
                IF okCars /\ okMaintenance /\ okOil
                THEN << DashboardStats(getUserCars(UserId),
                                       getUserMaintenanceRecords(UserId),
                                       getUserOilChangeRecords(UserId), now) >>
                ELSE << [error |-> "Failed to fetch dashboard statistics"] >>
          /\ fetchOk' = [cars |-> okCars, maintenance |-> okMaintenance,
                         oilChanges |-> okOil]
    /\ UNCHANGED <<dbCars, dbMaintenance, dbOilChanges>>
    /\ UNCHANGED clockVars
    /\ UNCHANGED classifyVars
    /\ UNCHANGED screenVars
    /\ UNCHANGED manageVars
    /\ UNCHANGED auxVars

\* one call getDashboardStats(UserId); each of the three fetches either
\* returns or throws, and a fetch that throws leaves its array empty
GetDashboardStats ==
    /\ stats = <<>>
    /\ \E okCars, okMaintenance, okOil \in BOOLEAN :
          LET cars == IF okCars THEN getUserCars(UserId) ELSE <<>>
              maintenance ==
                  IF okMaintenance THEN getUserMaintenanceRecords(UserId) ELSE <<>>
              oilChanges == IF okOil THEN getUserOilChangeRecords(UserId) ELSE <<>>
          IN  /\ stats' = << DashboardStats(cars, maintenance, oilChanges, now) >>
              /\ fetchOk' = [cars |-> okCars, maintenance |-> okMaintenance,
                             oilChanges |-> okOil]
    /\ UNCHANGED <<dbCars, dbMaintenance, dbOilChanges>>
    /\ UNCHANGED clockVars
    /\ UNCHANGED classifyVars
    /\ UNCHANGED screenVars
    /\ UNCHANGED manageVars
    /\ UNCHANGED auxVars

DashNext == GetDashboardStats

DashboardSpec == DashInit /\ [][DashNext]_vars

(* --------------------- claims on getDashboardStats --------------------- *)
Returned == stats # <<>>
Stats == stats[1]

\* the user's documents, read off the collections
UserCarIds == {dbCars[i].id : i \in {j \in DOMAIN dbCars : dbCars[j].ownerId = UserId}}
UserMaintenance == {i \in DOMAIN dbMaintenance : dbMaintenance[i].carId \in UserCarIds}
UserOilChanges == {i \in DOMAIN dbOilChanges : dbOilChanges[i].carId \in UserCarIds}

\* the sum over the documents docs[i], i in I, of the cost, absent counted 0
RECURSIVE CostOver(_, _)
CostOver(docs, I) ==
    IF I = {} THEN 0
    ELSE LET i == CHOOSE j \in I : TRUE
         IN  (IF docs[i].cost = Undefined THEN 0 ELSE docs[i].cost[1])
                + CostOver(docs, I \ {i})

\* the next due date of document i lies in [today, today + 30 days]
DueWithin30Days(i) ==
    /\ dbMaintenance[i].nextDueDate.kind = "ymd"
    /\ Today <= dbMaintenance[i].nextDueDate.day
    /\ dbMaintenance[i].nextDueDate.day <= Today + ThirtyDays

\* C9: upcomingMaintenance is the number of the user's maintenance records
\* whose nextDueDate lies in [today, today + 30 days], both ends included,
\* at whatever time of day the statistics are computed.
C9_UpcomingInclusive ==
    (Returned /\ fetchOk.maintenance)
        => Stats.upcomingMaintenance
              = Cardinality({i \in UserMaintenance : DueWithin30Days(i)})

\* C10 as stated: the total cost is the sum of the costs of the user's
\* maintenance records, absent counted 0, and nothing else is added.
C10_MaintenanceOnly ==
    (Returned /\ fetchOk.maintenance)
        => Stats.totalMaintenanceCost = CostOver(dbMaintenance, UserMaintenance)

\* C10 (amended): the total cost is the sum of the costs of the user's
\* maintenance records plus the sum of the costs of the user's oil-change
\* records, an absent cost counted 0 and a category whose fetch failed
\* contributing 0.
C10_TotalCost ==
    Returned
        => Stats.totalMaintenanceCost
              = (IF fetchOk.maintenance
                    THEN CostOver(dbMaintenance, UserMaintenance) ELSE 0)
                + (IF fetchOk.oilChanges
                    THEN CostOver(dbOilChanges, UserOilChanges) ELSE 0)

\* C10 witness: the statistics were computed with every fetch succeeding for
\* a user with a costed record, a record without cost and a costed oil
\* change, and the total exceeds the maintenance costs alone.
C10_Witness ==
    /\ Returned
    /\ fetchOk.maintenance /\ fetchOk.oilChanges
    /\ \E i \in UserMaintenance : dbMaintenance[i].cost # Undefined
    /\ \E i \in UserMaintenance : dbMaintenance[i].cost = Undefined
    /\ \E i \in UserOilChanges : dbOilChanges[i].cost # Undefined
    /\ Stats.totalMaintenanceCost
          > CostOver(dbMaintenance, UserMaintenance)

\* the call returned statistics, not an error
IsStats == Returned /\ DOMAIN Stats = {"totalCars", "totalMaintenanceRecords",
              "totalOilChanges", "totalMaintenanceCost", "upcomingMaintenance"}

\* the users cars, as positions in the collection
UserCars == {i \in DOMAIN dbCars : dbCars[i].ownerId = UserId}

\* the counts and the upcoming count: 0 for a category whose fetch failed,
\* the loaded data for a category that loaded
CountsDegrade ==
    /\ Stats.totalCars = (IF fetchOk.cars THEN Cardinality(UserCars) ELSE 0)
    /\ Stats.totalMaintenanceRecords
          = (IF fetchOk.maintenance THEN Cardinality(UserMaintenance) ELSE 0)
    /\ ~fetchOk.maintenance => Stats.upcomingMaintenance = 0

\* C11 as stated: the call always returns statistics; a category whose
\* fetch failed has all its totals 0 (car count; record count, cost total
\* and upcoming count) and a category that loaded shows the loaded data.
C11_FailedCategoryZero ==
    Returned =>
        /\ IsStats
        /\ CountsDegrade
        /\ ~fetchOk.maintenance => Stats.totalMaintenanceCost = 0

\* C11 (amended): the call always returns statistics; a failed cars fetch
\* gives car count 0, a failed maintenance fetch gives record count 0,
\* upcoming count 0 and a cost total made of the oil-change costs alone;
\* what loaded is counted in full.
C11_PartialData ==
    Returned =>
        /\ IsStats
        /\ CountsDegrade
        /\ ~fetchOk.maintenance
              => Stats.totalMaintenanceCost
                    = (IF fetchOk.oilChanges
                          THEN CostOver(dbOilChanges, UserOilChanges) ELSE 0)

\* C11 witness: the maintenance fetch failed for a user who has a car, a
\* costed maintenance record and a costed oil change; the cars and the oil
\* changes loaded and the cost total is not 0.
C11_Witness ==
    /\ IsStats
    /\ fetchOk.cars /\ ~fetchOk.maintenance /\ fetchOk.oilChanges
    /\ \E i \in UserMaintenance : dbMaintenance[i].cost # Undefined
    /\ Stats.totalCars = 1
    /\ Stats.totalMaintenanceRecords = 0
    /\ Stats.totalMaintenanceCost > 0

\* the users maintenance records without a nextDueDate
NoDueDate == {i \in UserMaintenance : dbMaintenance[i].nextDueDate.kind = "empty"}

\* C12: a maintenance record without nextDueDate contributes its cost to
\* the total and is never counted as upcoming: the upcoming count is at
\* most the number of records that have a nextDueDate, the total is the
\* cost of the records without one plus the cost of the dated records and
\* of the oil changes, and one record with a cost and no nextDueDate (and
\* no oil change) gives total = that cost, upcoming = 0.
C12_NoDueDate ==
    (IsStats /\ fetchOk.maintenance) =>
        /\ Stats.upcomingMaintenance <= Cardinality(UserMaintenance \ NoDueDate)
        /\ Stats.totalMaintenanceCost
              = CostOver(dbMaintenance, NoDueDate)
                    + CostOver(dbMaintenance, UserMaintenance \ NoDueDate)
                    + (IF fetchOk.oilChanges
                          THEN CostOver(dbOilChanges, UserOilChanges) ELSE 0)
        /\ (Cardinality(UserMaintenance) = 1 /\ NoDueDate = UserMaintenance
                /\ Stats.totalOilChanges = 0)
              => /\ Stats.totalMaintenanceCost = CostOver(dbMaintenance, NoDueDate)
                 /\ Stats.upcomingMaintenance = 0

\* C12 witness: one car, one record with a cost and no nextDueDate, no oil
\* change: the total is that cost and nothing is upcoming.
C12_Witness ==
    /\ IsStats
    /\ fetchOk.cars /\ fetchOk.maintenance /\ fetchOk.oilChanges
    /\ Stats.totalCars = 1
    /\ Cardinality(UserMaintenance) = 1 /\ NoDueDate = UserMaintenance
    /\ dbOilChanges = <<>>
    /\ Stats.totalMaintenanceCost = 15050
    /\ Stats.upcomingMaintenance = 0

\* C13: for a user with no cars (and so no maintenance records), every
\* field of the statistics is 0.
C13_AllZero ==
    (Returned /\ UserCars = {}) =>
        /\ IsStats
        /\ Stats.totalCars = 0
        /\ Stats.totalMaintenanceRecords = 0
        /\ Stats.totalOilChanges = 0
        /\ Stats.totalMaintenanceCost = 0
        /\ Stats.upcomingMaintenance = 0

\* C13 witness: every fetch succeeded for a user without cars while the
\* collections hold another users car and its costed, due record.
C13_Witness ==
    /\ IsStats
    /\ fetchOk.cars /\ fetchOk.maintenance /\ fetchOk.oilChanges
    /\ UserCars = {}
    /\ \E i \in DOMAIN dbMaintenance :
          /\ dbMaintenance[i].cost # Undefined
          /\ dbMaintenance[i].nextDueDate = Ymd(Today)
    /\ Stats.totalMaintenanceRecords = 0

(* ------------------------- NotificationsScreen ------------------------- *)
\* orderBy('reminderDate', 'asc') compares the stored strings: the empty
\* string first, then the dates, then text that is no date; documents with
\* equal strings come in the order of their ids
DateRank(s) == CASE s.kind = "empty" -> 0 [] s.kind = "ymd" -> 1 [] OTHER -> 2

Before(a, b) ==
    LET ra == DateRank(a.reminderDate)
        rb == DateRank(b.reminderDate)
    IN  \/ ra < rb
        \/ ra = rb /\ a.reminderDate.day < b.reminderDate.day
        \/ ra = rb /\ a.reminderDate.day = b.reminderDate.day
              /\ IdRank(a.id) < IdRank(b.id)

RECURSIVE InOrder(_)
InOrder(docs) ==
    IF docs = {} THEN <<>>
    ELSE LET first == CHOOSE d \in docs : \A e \in docs \ {d} : Before(d, e)
         IN  <<first>> \o InOrder(docs \ {first})

\* DatabaseService.getUserReminders(userId)
getUserReminders(userId) ==
    InOrder({dbReminders[id][1] :
                id \in {i \in DOMAIN dbReminders :
                           dbReminders[i] # <<>> /\ dbReminders[i][1].userId = userId}})

\* the loop without the test of the stored status
RECURSIVE BuildNotifications_AnyStatus(_, _, _)
BuildNotifications_AnyStatus(reminders, z, t) ==
    IF reminders = <<>> THEN <<>>
    ELSE LET r == Head(reminders)
             rest == BuildNotifications_AnyStatus(Tail(reminders), z, t)
         IN  IF r.id = "" \/ r.reminderDate.kind = "empty" THEN rest
             ELSE calculateReminderStatus(r, z, t) \o rest

\* the for loop of loadReminders over the fetched reminders, run at instant t
RECURSIVE BuildNotifications(_, _, _)
BuildNotifications(reminders, z, t) ==
    IF reminders = <<>> THEN <<>>
    ELSE LET r == Head(reminders)
             rest == BuildNotifications(Tail(reminders), z, t)
         IN  IF r.id = "" \/ r.reminderDate.kind = "empty" THEN rest
             ELSE IF r.status = "completed" \/ r.status = "dismissed" THEN rest
             ELSE calculateReminderStatus(r, z, t) \o rest

\* reminderNotifications.sort((a, b) => a.daysUntil - b.daysUntil): a stable
\* sort
RECURSIVE SortByDaysUntil(_)
SortByDaysUntil(ns) ==
    IF ns = <<>> THEN <<>>
    ELSE LET rest == SortByDaysUntil(SubSeq(ns, 1, Len(ns) - 1))
             x == ns[Len(ns)]
             k == Cardinality({i \in DOMAIN rest : rest[i].daysUntil <= x.daysUntil})
         IN  SubSeq(rest, 1, k) \o <<x>> \o SubSeq(rest, k + 1, Len(rest))

\* loadReminders() is called (screen focus, pull to refresh, or after a
\* dismiss or complete) and runs to its first await, in a free slot
StartLoad(c) ==
    /\ loads[c].pc = "idle"
    /\ \A d \in DOMAIN loads : d < c => loads[d].pc # "idle"
    /\ loading' = TRUE
    /\ loads' = [loads EXCEPT ![c] = [pc |-> "getUserReminders", reminders |-> <<>>]]

\* useFocusEffect / onRefresh
LoadReminders(c) ==
    /\ StartLoad(c)
    /\ UNCHANGED <<dbReminders, notifications, alert, lastFetched>>
    /\ UNCHANGED <<clockVars, classifyVars, dashVars, manageVars, auxVars>>

\* await getUserReminders(user.id) returns
ReturnUserReminders(c) ==
    /\ loads[c].pc = "getUserReminders"
    /\ loads' = [loads EXCEPT ![c] = [pc |-> "getUserCars",
                                      reminders |-> getUserReminders(UserId)]]
    /\ UNCHANGED <<dbReminders, notifications, loading, alert, lastFetched>>
    /\ UNCHANGED <<clockVars, classifyVars, dashVars, manageVars, auxVars>>

\* the same step for a loader that expires what it classifies overdue: it
\* writes status dismissed to every reminder it shows as overdue
ReturnUserCars_Expiring(c) ==
    /\ loads[c].pc = "getUserCars"
    /\ notifications' =
          SortByDaysUntil(BuildNotifications(loads[c].reminders, zone, now))
    /\ loading' = FALSE
    /\ lastFetched' = << loads[c].reminders >>
    /\ loads' = [loads EXCEPT ![c] = IdleLoad]
    /\ dbReminders' =
          [id \in ReminderIds |->
              IF /\ dbReminders[id] # <<>>
                 /\ \E i \in DOMAIN notifications' :
                       /\ notifications'[i].id = id
                       /\ notifications'[i].status = "overdue"
              THEN << [dbReminders[id][1] EXCEPT !.status = "dismissed"] >>
              ELSE dbReminders[id]]
    /\ UNCHANGED alert
    /\ UNCHANGED <<clockVars, classifyVars, dashVars, manageVars, auxVars>>

\* await getUserCars(user.id) returns: the loop, the sort, setNotifications
\* and the finally block
ReturnUserCars(c) ==
    /\ loads[c].pc = "getUserCars"
    /\ notifications' =
          SortByDaysUntil(BuildNotifications(loads[c].reminders, zone, now))
    /\ loading' = FALSE
    /\ lastFetched' = << loads[c].reminders >>
    /\ loads' = [loads EXCEPT ![c] = IdleLoad]
    /\ UNCHANGED <<dbReminders, alert>>
    /\ UNCHANGED <<clockVars, classifyVars, dashVars, manageVars, auxVars>>

\* either fetch throws: the catch block and the finally block
LoadFails(c) ==
    /\ loads[c].pc \in {"getUserReminders", "getUserCars"}
    /\ notifications' = <<>>
    /\ loading' = FALSE
    /\ lastFetched' = <<>>
    /\ loads' = [loads EXCEPT ![c] = IdleLoad]
    /\ UNCHANGED <<dbReminders, alert>>
    /\ UNCHANGED <<clockVars, classifyVars, dashVars, manageVars, auxVars>>

\* DatabaseService.updateReminder(id, {status}): updateDoc on the document
UpdateReminderStatus(id, status) ==
    [dbReminders EXCEPT ![id] = << [dbReminders[id][1] EXCEPT !.status = status] >>]

\* the confirmed branch of handleDismissReminder / handleCompleteReminder for
\* the i-th card shown: the update, then loadReminders()
SetStatusFromCard(i, status, c) ==
    /\ ~loading
    /\ i \in DOMAIN notifications
    /\ dbReminders[notifications[i].id] # <<>>
    /\ dbReminders' = UpdateReminderStatus(notifications[i].id, status)
    /\ StartLoad(c)
    /\ UNCHANGED <<notifications, alert, lastFetched>>
    /\ UNCHANGED <<clockVars, classifyVars, dashVars, manageVars, auxVars>>

handleDismissReminder(i, c) == SetStatusFromCard(i, "dismissed", c)

handleCompleteReminder(i, c) == SetStatusFromCard(i, "completed", c)

\* updateReminder throws (the document is gone, or the request fails): the
\* catch block shows the alert
UpdateFails(i, text) ==
    /\ ~loading
    /\ i \in DOMAIN notifications
    /\ alert' = text
    /\ UNCHANGED <<dbReminders, notifications, loading, loads, lastFetched>>
    /\ UNCHANGED <<clockVars, classifyVars, dashVars, manageVars, auxVars>>

(* --------------------------- AddReminderScreen ------------------------- *)
\* handleAddReminder with a form that validateForm accepts: the date the
\* picker holds and notifyBefore '' (undefined) or a number >= 0
handleAddReminder(date, notifyBefore) ==
    /\ \E id \in ReminderIds :
          /\ dbReminders[id] = <<>>
          /\ \A other \in ReminderIds :
                IdRank(other) < IdRank(id) => dbReminders[other] # <<>>
          /\ dbReminders' =
                [dbReminders EXCEPT ![id] =
                    << [id |-> id, userId |-> UserId, reminderDate |-> date,
                        notifyBefore |-> notifyBefore, status |-> "pending"] >>]
    /\ UNCHANGED <<notifications, loading, loads, alert, lastFetched>>
    /\ UNCHANGED <<clockVars, classifyVars, dashVars, manageVars, auxVars>>

(* ------------------------------- the clock ----------------------------- *)
HalfDay == HoursPerDay \div 2
\* noon UTC of day 1
SpecStart == HoursPerDay + HalfDay

\* half a day passes
Tick ==
    /\ now + HalfDay <= SpecStart + MaxTicks * HalfDay
    /\ now' = now + HalfDay
    /\ UNCHANGED zone
    /\ UNCHANGED <<classifyVars, dashVars, screenVars, manageVars, auxVars>>

(* --------------------------------- Spec -------------------------------- *)
\* a document of the collection that this client's forms did not write:
\* its reminderDate is no date, or is empty
ForeignDocs ==
    {[id |-> AllIds[1], userId |-> UserId, reminderDate |-> d,
      notifyBefore |-> Undefined, status |-> "pending"] : d \in {Garbage, Empty}}

\* the dates and notify-before values entered in the form
FormDates == {Ymd(LocalDay(zone, now) + k) : k \in {0, 1}}
FormNotify == {Undefined, Some(0)}
\* the Add Reminder form's notify-before as the Notifications screen sees
\* it: '' stands for 0 as well, both read as the default window
\* (notifyBefore || 1)
AddFormNotify == {Undefined}

\* the device is at UTC or west of it
SpecZones == {NoDst(0), NoDst(-5)}

Init ==
    /\ zone \in SpecZones
    /\ now = SpecStart
    /\ reminder = [id |-> "r1", reminderDate |-> Empty, notifyBefore |-> Undefined,
                   status |-> "pending"]
    /\ result = <<>>
    /\ manageStatus = <<>>
    /\ DashIdle
    /\ \E first \in {<<>>} \cup {<<d>> : d \in ForeignDocs} :
          dbReminders = [id \in ReminderIds |-> IF id = AllIds[1] THEN first ELSE <<>>]
    /\ notifications = <<>>
    /\ loading = TRUE
    /\ loads = [c \in LoadSlots |-> IdleLoad]
    /\ alert = ""
    /\ lastFetched = <<>>
    /\ ManageIdle
    /\ AuxIdle

Next ==
    \/ \E c \in LoadSlots : LoadReminders(c)
    \/ \E c \in LoadSlots : ReturnUserReminders(c)
    \/ \E c \in LoadSlots : ReturnUserCars(c)
    \/ \E c \in LoadSlots : LoadFails(c)
    \/ \E i \in 1..MaxReminders, c \in LoadSlots : handleDismissReminder(i, c)
    \/ \E i \in 1..MaxReminders, c \in LoadSlots : handleCompleteReminder(i, c)
    \/ \E i \in 1..MaxReminders :
          \E text \in {"Failed to dismiss reminder", "Failed to complete reminder"} :
             UpdateFails(i, text)
    \/ \E date \in FormDates, notifyBefore \in AddFormNotify :
          handleAddReminder(date, notifyBefore)
    \/ Tick

Spec == Init /\ [][Next]_vars

(* ------------------------------- LoadSpec ------------------------------ *)
FetchIds == {AllIds[i] : i \in 1..MaxFetched}

\* the documents a 'reminders' collection can hold under the id given: the
\* user's, dated before or after today in each status, or pending with a
\* text that is no date or with no date at all; and another user's
\* pending reminder
StoredDocs(id, today) ==
    {[id |-> id, userId |-> UserId, reminderDate |-> d, notifyBefore |-> Undefined,
      status |-> st] :
        d \in {Ymd(today - 1), Ymd(today + 1)},
        st \in {"pending", "completed", "dismissed"}}
    \cup {[id |-> id, userId |-> UserId, reminderDate |-> d,
           notifyBefore |-> Undefined, status |-> "pending"] : d \in {Garbage, Empty}}
    \cup {[id |-> id, userId |-> "u2", reminderDate |-> Ymd(today + 1),
           notifyBefore |-> Undefined, status |-> "pending"]}

LoadInit ==
    /\ zone \in SpecZones
    /\ now = SpecStart
    /\ reminder = [id |-> "r1", reminderDate |-> Empty, notifyBefore |-> Undefined,
                   status |-> "pending"]
    /\ result = <<>>
    /\ manageStatus = <<>>
    /\ DashIdle
    /\ dbReminders \in
          {docs \in [FetchIds -> UNION {{<<>>} \cup {<<d>> : d \in StoredDocs(id, LocalDay(zone, now))} :
                                          id \in FetchIds}] :
              \A id \in FetchIds : docs[id] # <<>> => docs[id][1].id = id}
    /\ notifications = <<>>
    /\ loading = TRUE
    /\ loads = [c \in LoadSlots |-> IdleLoad]
    /\ alert = ""
    /\ lastFetched = <<>>
    /\ ManageIdle
    /\ AuxIdle

LoadNext ==
    \/ \E c \in LoadSlots : LoadReminders(c)
    \/ \E c \in LoadSlots : ReturnUserReminders(c)
    \/ \E c \in LoadSlots : ReturnUserCars(c)
    \/ \E c \in LoadSlots : LoadFails(c)

LoadSpec == LoadInit /\ [][LoadNext]_vars

(* ------------------------------- RaceSpec ------------------------------ *)
\* the Notifications screen with loads that overlap: the screen is focused
\* again, or pulled to refresh, while an earlier loadReminders still awaits
RaceSlots == 1..MaxOverlap

\* the user's reminders when the screen opens: pending, due tomorrow
RaceDocs(today) ==
    [id \in ReminderIds |->
        << [id |-> id, userId |-> UserId, reminderDate |-> Ymd(today + 1),
            notifyBefore |-> Undefined, status |-> "pending"] >>]

RaceInit ==
    /\ zone \in SpecZones
    /\ now = SpecStart
    /\ reminder = [id |-> "r1", reminderDate |-> Empty, notifyBefore |-> Undefined,
                   status |-> "pending"]
    /\ result = <<>>
    /\ manageStatus = <<>>
    /\ DashIdle
    /\ dbReminders = RaceDocs(LocalDay(zone, now))
    /\ notifications = <<>>
    /\ loading = TRUE
    /\ loads = [c \in RaceSlots |-> IdleLoad]
    /\ alert = ""
    /\ lastFetched = <<>>
    /\ ManageIdle
    /\ AuxIdle

RaceNext ==
    \/ \E c \in RaceSlots : LoadReminders(c)
    \/ \E c \in RaceSlots : ReturnUserReminders(c)
    \/ \E c \in RaceSlots : ReturnUserCars(c)
    \/ \E c \in RaceSlots : LoadFails(c)
    \/ \E i \in 1..MaxReminders, c \in RaceSlots : handleDismissReminder(i, c)
    \/ \E i \in 1..MaxReminders, c \in RaceSlots : handleCompleteReminder(i, c)
    \/ \E i \in 1..MaxReminders :
          \E text \in {"Failed to dismiss reminder", "Failed to complete reminder"} :
             UpdateFails(i, text)

RaceSpec == RaceInit /\ [][RaceNext]_vars

(* ------------------- claims on the Notifications screen ---------------- *)
\* the reminders of the last completed load that are pending and whose
\* reminderDate is missing or does not parse
InvalidFetched ==
    IF lastFetched = <<>> THEN {}
    ELSE {lastFetched[1][i] : i \in
            {j \in DOMAIN lastFetched[1] :
                /\ lastFetched[1][j].status = "pending"
                /\ lastFetched[1][j].reminderDate.kind # "ymd"}}

Shown(id) == \E i \in DOMAIN notifications : notifications[i].id = id

\* C6: a reminder whose date is invalid or unparseable produces an error
\* that is surfaced: it is given no status, and it is not silently left
\* out of the result.
C6_InvalidDateSurfaced ==
    \A r \in InvalidFetched : ~Shown(r.id) /\ alert # ""

\* C7: whenever the list is displayed, the status and daysUntil shown on
\* each card are the classification of that reminder at the current date.
C7_NeverStale ==
    ~loading =>
        \A i \in DOMAIN notifications :
            LET fresh == calculateReminderStatus(notifications[i].reminder, zone, now)
            IN  /\ fresh # <<>>
                /\ notifications[i].status = fresh[1].status
                /\ notifications[i].daysUntil = fresh[1].daysUntil

\* the stored document id is created by the form, with status pending
CreatedPending(id) ==
    /\ dbReminders[id] = <<>>
    /\ dbReminders'[id] # <<>>
    /\ dbReminders'[id][1].status = "pending"

\* the stored document id goes from pending to completed or dismissed by a
\* press on its card in the displayed list, nothing else in it changing
StatusSetFromCard(id) ==
    /\ ~loading
    /\ Shown(id)
    /\ dbReminders[id] # <<>> /\ dbReminders'[id] # <<>>
    /\ dbReminders'[id][1].status \in {"completed", "dismissed"}
    /\ dbReminders'[id][1] =
          [dbReminders[id][1] EXCEPT !.status = dbReminders'[id][1].status]

\* C8: loading and classifying never write to the reminder store, and no
\* passage of time alone changes a stored reminder: a stored document
\* changes only when the form creates it or a card of the displayed list
\* is dismissed or completed, and never in a step in which the clock moves.
C8_LoadsNeverWrite ==
    [][ /\ now' # now => dbReminders' = dbReminders
        /\ \A id \in ReminderIds :
              dbReminders'[id] # dbReminders[id]
                  => CreatedPending(id) \/ StatusSetFromCard(id) ]_vars

\* C8 witness: the displayed list classifies as overdue a reminder whose
\* date has passed, and its stored status is still pending
C8_Witness ==
    /\ ~loading
    /\ \E i \in DOMAIN notifications :
          /\ notifications[i].status = "overdue"
          /\ notifications[i].reminder.reminderDate.day < Today
          /\ dbReminders[notifications[i].id] # <<>>
          /\ dbReminders[notifications[i].id][1].status = "pending"

(* ------------------------ ManageRemindersScreen ------------------------ *)
\* loadReminders() of the Manage Reminders screen is called and runs to its
\* await, in a free slot
ManageStartLoad(c) ==
    /\ calls[c].pc = "idle"
    /\ \A d \in CallSlots : d < c => calls[d].pc # "idle"
    /\ manageLoading' = TRUE
    /\ calls' = [calls EXCEPT ![c] = [pc |-> "getUserReminders", id |-> "",
                                      status |-> ""]]

\* useFocusEffect / onRefresh
ManageLoadReminders(c) ==
    /\ ManageStartLoad(c)
    /\ UNCHANGED manageReminders
    /\ UNCHANGED <<clockVars, classifyVars, dashVars, screenVars, auxVars>>

\* await getUserReminders(user.id) returns: setReminders and the finally block
ManageReturnUserReminders(c) ==
    /\ calls[c].pc = "getUserReminders"
    /\ manageReminders' = getUserReminders(UserId)
    /\ manageLoading' = FALSE
    /\ calls' = [calls EXCEPT ![c] = IdleCall]
    /\ UNCHANGED <<clockVars, classifyVars, dashVars, screenVars, auxVars>>

\* getUserReminders throws: the empty catch block keeps the list held, the
\* finally block ends the spinner
ManageLoadFails(c) ==
    /\ calls[c].pc = "getUserReminders"
    /\ manageLoading' = FALSE
    /\ calls' = [calls EXCEPT ![c] = IdleCall]
    /\ UNCHANGED manageReminders
    /\ UNCHANGED <<clockVars, classifyVars, dashVars, screenVars, auxVars>>

\* a press on the check or the close button of the i-th card, which the
\* screen renders while the copy it holds has status pending: the handler
\* runs to await updateReminder(reminderId, {status})
ManageSetStatus(i, status, c) ==
    /\ ~manageLoading
    /\ i \in DOMAIN manageReminders
    /\ manageReminders[i].status = "pending"
    /\ calls[c].pc = "idle"
    /\ \A d \in CallSlots : d < c => calls[d].pc # "idle"
    /\ calls' = [calls EXCEPT ![c] = [pc |-> "updateReminder",
                                      id |-> manageReminders[i].id,
                                      status |-> status]]
    /\ UNCHANGED <<manageReminders, manageLoading>>
    /\ UNCHANGED <<clockVars, classifyVars, dashVars, screenVars, auxVars>>

ManageCompleteReminder(i, c) == ManageSetStatus(i, "completed", c)

ManageDismissReminder(i, c) == ManageSetStatus(i, "dismissed", c)

\* updateReminder returns: updateDoc has written the status, and the handler
\* goes on to await loadReminders()
ManageUpdateReturns(c) ==
    /\ calls[c].pc = "updateReminder"
    /\ dbReminders[calls[c].id] # <<>>
    /\ dbReminders' = UpdateReminderStatus(calls[c].id, calls[c].status)
    /\ manageLoading' = TRUE
    /\ calls' = [calls EXCEPT ![c] = [pc |-> "getUserReminders", id |-> "",
                                      status |-> ""]]
    /\ UNCHANGED manageReminders
    /\ UNCHANGED <<notifications, loading, loads, alert, lastFetched>>
    /\ UNCHANGED <<clockVars, classifyVars, dashVars, auxVars>>

\* updateReminder throws: the catch block of the handler shows its alert
ManageUpdateFails(c) ==
    /\ calls[c].pc = "updateReminder"
    /\ alert' = (IF calls[c].status = "completed"
                 THEN "Failed to update reminder status"
                 ELSE "Failed to dismiss reminder")
    /\ calls' = [calls EXCEPT ![c] = IdleCall]
    /\ UNCHANGED <<manageReminders, manageLoading>>
    /\ UNCHANGED <<dbReminders, notifications, loading, loads, lastFetched>>
    /\ UNCHANGED <<clockVars, classifyVars, dashVars, auxVars>>

(* -------------------------- EditReminderScreen ------------------------- *)
\* DatabaseService.updateReminder(id, updates) with the updates of the edit
\* form: an undefined value is filtered out, so the stored field is kept
UpdateReminderFields(id, date, notifyBefore) ==
    [dbReminders EXCEPT ![id] =
        << [dbReminders[id][1] EXCEPT
               !.reminderDate = date,
               !.notifyBefore = IF notifyBefore = Undefined THEN @ ELSE notifyBefore] >>]

\* the pencil of the i-th card, the edit form saved with a form validateForm
\* accepts, and the return to the list, which gets focus and loads again
handleUpdateReminder(i, date, notifyBefore, c) ==
    /\ ~manageLoading
    /\ i \in DOMAIN manageReminders
    /\ dbReminders[manageReminders[i].id] # <<>>
    /\ dbReminders' = UpdateReminderFields(manageReminders[i].id, date, notifyBefore)
    /\ ManageStartLoad(c)
    /\ UNCHANGED manageReminders
    /\ UNCHANGED <<notifications, loading, loads, alert, lastFetched>>
    /\ UNCHANGED <<clockVars, classifyVars, dashVars, auxVars>>

(* ------------------------------ ManageSpec ----------------------------- *)
ManageInit ==
    /\ zone = NoDst(0)
    /\ now = SpecStart
    /\ reminder = [id |-> "r1", reminderDate |-> Empty, notifyBefore |-> Undefined,
                   status |-> "pending"]
    /\ result = <<>>
    /\ manageStatus = <<>>
    /\ DashIdle
    /\ ScreenIdle
    /\ ManageIdle
    /\ AuxIdle

ManageNext ==
    \/ \E c \in CallSlots : ManageLoadReminders(c)
    \/ \E c \in CallSlots : ManageReturnUserReminders(c)
    \/ \E c \in CallSlots : ManageLoadFails(c)
    \/ \E i \in 1..MaxReminders, c \in CallSlots : ManageCompleteReminder(i, c)
    \/ \E i \in 1..MaxReminders, c \in CallSlots : ManageDismissReminder(i, c)
    \/ \E c \in CallSlots : ManageUpdateReturns(c)
    \/ \E c \in CallSlots : ManageUpdateFails(c)
    \/ \E i \in 1..MaxReminders, c \in CallSlots :
          \E date \in FormDates, notifyBefore \in FormNotify :
             handleUpdateReminder(i, date, notifyBefore, c)
    \/ \E date \in FormDates, notifyBefore \in FormNotify :
          handleAddReminder(date, notifyBefore)

ManageSpec == ManageInit /\ [][ManageNext]_vars

(* --------------------- claims on the reminder life cycle --------------- *)
\* the stored document id changes status in this step
StatusChanges(id) ==
    /\ dbReminders[id] # <<>> /\ dbReminders'[id] # <<>>
    /\ dbReminders'[id][1].status # dbReminders[id][1].status

\* C14: every reminder is created with stored status pending; the only
\* status changes written are pending to completed and pending to
\* dismissed; a field edit never changes the status; and no complete or
\* dismiss is applied to a reminder whose stored status is already
\* completed or dismissed.
C14_Lifecycle ==
    [][ \A id \in ReminderIds :
          /\ (dbReminders[id] = <<>> /\ dbReminders'[id] # <<>>)
                => dbReminders'[id][1].status = "pending"
          /\ StatusChanges(id)
                => /\ dbReminders[id][1].status = "pending"
                   /\ dbReminders'[id][1].status \in {"completed", "dismissed"}
          /\ \A c \in CallSlots :
                (calls[c].pc = "updateReminder" /\ calls'[c].pc # "updateReminder"
                    /\ calls[c].id = id /\ dbReminders'[id] # dbReminders[id])
                  => dbReminders[id][1].status = "pending" ]_vars

(* ------------------------- WorkshopFinderScreen ------------------------ *)
\* the key the comparator gives a workshop: a.distance || 999
SortKey(w) == OrDefault(w.distance, MissingDistance)

\* workshopResults.sort((a, b) => (a.distance || 999) - (b.distance || 999)):
\* a stable sort on that key
RECURSIVE SortWorkshops(_)
SortWorkshops(ws) ==
    IF ws = <<>> THEN <<>>
    ELSE LET rest == SortWorkshops(SubSeq(ws, 1, Len(ws) - 1))
             x == ws[Len(ws)]
             k == Cardinality({i \in DOMAIN rest : SortKey(rest[i]) <= SortKey(x)})
         IN  SubSeq(rest, 1, k) \o <<x>> \o SubSeq(rest, k + 1, Len(rest))

\* searchWorkshops with a query naming Hedin, the Places search answering OK
\* with filtered results: the distances are computed, the list is sorted
\* and set
searchWorkshops ==
    /\ ~searched
    /\ places # <<>>
    /\ workshops' = SortWorkshops(places)
    /\ searched' = TRUE
    /\ UNCHANGED <<places, exportData, authVars, liveVars>>
    /\ UNCHANGED <<clockVars, classifyVars, dashVars, screenVars, manageVars>>

\* searchWorkshops finding nothing (no filtered result, ZERO_RESULTS, a denied
\* or failed request): the list is emptied and an alert is shown
SearchFindsNothing(text) ==
    /\ ~searched
    /\ workshops' = <<>>
    /\ searched' = TRUE
    /\ alert' = text
    /\ UNCHANGED <<places, exportData, authVars, liveVars>>
    /\ UNCHANGED <<dbReminders, notifications, loading, loads, lastFetched>>
    /\ UNCHANGED <<clockVars, classifyVars, dashVars, manageVars>>

(* ----------------------------- WorkshopSpec ---------------------------- *)
\* computed distances in kilometres: at the user's position, near, far,
\* exactly the comparator's default, and beyond it
Distances == {0, 2, 40, MissingDistance, 1200}
PlaceIds == <<"p1", "p2", "p3", "p4">>

\* the results of one search: with a user location every place has a
\* computed distance, without one every distance is undefined
PlaceLists ==
    UNION {{[i \in 1..k |-> [id |-> PlaceIds[i], distance |-> ds[i]]] :
                ds \in [1..k -> {Some(d) : d \in Distances}] \cup [1..k -> {Undefined}]} :
           k \in 0..MaxPlaces}

WorkshopInit ==
    /\ zone = NoDst(0)
    /\ now = SpecStart
    /\ reminder = [id |-> "r1", reminderDate |-> Empty, notifyBefore |-> Undefined,
                   status |-> "pending"]
    /\ result = <<>>
    /\ manageStatus = <<>>
    /\ DashIdle
    /\ ScreenIdle
    /\ ManageIdle
    /\ places \in PlaceLists
    /\ workshops = <<>>
    /\ searched = FALSE
    /\ ExportIdle
    /\ AuthIdle
    /\ LiveIdle

WorkshopNext ==
    \/ searchWorkshops
    \/ \E text \in {"No Results", "Network Error"} : SearchFindsNothing(text)

WorkshopSpec == WorkshopInit /\ [][WorkshopNext]_vars

(* ------------------------ claims on the workshop list ------------------ *)
\* C15: the list a search produces is in non-decreasing order of distance
\* from the user, for every set of computed distances, a distance of
\* exactly 0 included.
C15_SortedByDistance ==
    searched =>
        \A i, j \in DOMAIN workshops :
            (i < j /\ workshops[i].distance # Undefined
                   /\ workshops[j].distance # Undefined)
                => workshops[i].distance[1] <= workshops[j].distance[1]

(* ------------------------------ dataExport ----------------------------- *)
\* the documents of the 'reminders' collection, in the order of their ids
RECURSIVE AllReminders(_)
AllReminders(n) ==
    IF n = 0 THEN <<>>
    ELSE AllReminders(n - 1) \o dbReminders[AllIds[n]]

\* exportData of exportAllData / getExportDataString: the three collections
\* are read whole; cars are filtered by ownerId, reminders by userId, and
\* the maintenance documents are mapped without a filter
ExportObject(userId) ==
    LET cars == SelectSeq(dbCars, LAMBDA c : c.ownerId = userId)
        maintenance == dbMaintenance
        reminders == SelectSeq(AllReminders(MaxReminders), LAMBDA r : r.userId = userId)
    IN  [userId |-> userId,
         data |-> [cars |-> cars, maintenance |-> maintenance, reminders |-> reminders],
         stats |-> [totalCars |-> Len(cars), totalMaintenance |-> Len(maintenance),
                    totalReminders |-> Len(reminders)]]

\* the frame of an export: the collections and every screen are left alone
ExportFrame ==
    /\ UNCHANGED <<workshopVars, authVars, liveVars>>
    /\ UNCHANGED <<clockVars, classifyVars, dashVars, screenVars, manageVars>>

\* SettingsScreen.handleExportData, confirmed: exportAllData(user.id) writes
\* the export object, as JSON, to the backup file and shares it
exportAllData ==
    /\ exportData = <<>>
    /\ exportData' = << [via |-> "file", object |-> ExportObject(UserId)] >>
    /\ ExportFrame

\* getExportDataString(user.id): the same object, as a JSON string
getExportDataString ==
    /\ exportData = <<>>
    /\ exportData' = << [via |-> "string", object |-> ExportObject(UserId)] >>
    /\ ExportFrame

\* a getDocs, the file write or the share throws: 'Failed to export data'
ExportFails ==
    /\ exportData = <<>>
    /\ exportData' = << [via |-> "error"] >>
    /\ ExportFrame

(* ------------------------------ ExportSpec ----------------------------- *)
ExportInit ==
    /\ zone = NoDst(0)
    /\ now = SpecStart
    /\ reminder = [id |-> "r1", reminderDate |-> Empty, notifyBefore |-> Undefined,
                   status |-> "pending"]
    /\ result = <<>>
    /\ manageStatus = <<>>
    /\ \E o \in {"u1", "u2"} :
          dbCars = << [id |-> "c1", ownerId |-> o], [id |-> "c2", ownerId |-> "u2"] >>
    /\ dbMaintenance \in
          {docs \in SeqsUpTo([carId : {"c1", "c2"}, cost : CostValues,
                              nextDueDate : {Empty}], MaxRecords) : RankOrdered(docs)}
    /\ dbOilChanges = <<>>
    /\ stats = <<>>
    /\ fetchOk = [cars |-> TRUE, maintenance |-> TRUE, oilChanges |-> TRUE]
    /\ dbReminders \in
          {docs \in [ReminderIds ->
                        {<<>>} \cup {<< [id |-> id, userId |-> u,
                                         reminderDate |-> Ymd(1),
                                         notifyBefore |-> Undefined, status |-> st] >> :
                                        id \in ReminderIds, u \in {"u1", "u2"},
                                        st \in {"pending", "completed"}}] :
              \A id \in ReminderIds : docs[id] # <<>> => docs[id][1].id = id}
    /\ notifications = <<>>
    /\ loading = TRUE
    /\ loads = [c \in LoadSlots |-> IdleLoad]
    /\ alert = ""
    /\ lastFetched = <<>>
    /\ ManageIdle
    /\ WorkshopIdle
    /\ exportData = <<>>
    /\ AuthIdle
    /\ LiveIdle

ExportNext == exportAllData \/ getExportDataString \/ ExportFails

ExportSpec == ExportInit /\ [][ExportNext]_vars

(* --------------------------- claims on the export ---------------------- *)
Exported == exportData # <<>> /\ exportData[1].via # "error"
Export == exportData[1].object.data

\* C17: the export made for a user holds only that user's data: every car
\* in it is owned by the user, every maintenance record in it belongs to
\* one of the user's cars, and every reminder in it is the user's.
C17_OnlyOwnData ==
    Exported =>
        /\ \A i \in DOMAIN Export.cars : Export.cars[i].ownerId = UserId
        /\ \A i \in DOMAIN Export.maintenance :
              Export.maintenance[i].carId \in UserCarIds
        /\ \A i \in DOMAIN Export.reminders : Export.reminders[i].userId = UserId

(* ------------------------------ AuthService ---------------------------- *)
\* A string is the sequence of its characters.
\* String.prototype.toLowerCase
LowerChar(ch) == IF ch = "A" THEN "a" ELSE IF ch = "B" THEN "b" ELSE ch
toLowerCase(str) == [i \in DOMAIN str |-> LowerChar(str[i])]

\* String.prototype.trim
RECURSIVE trim(_)
trim(str) ==
    IF str = <<>> THEN <<>>
    ELSE IF Head(str) = " " THEN trim(Tail(str))
    ELSE IF str[Len(str)] = " " THEN trim(SubSeq(str, 1, Len(str) - 1))
    ELSE str

\* email.includes('@')
IncludesAt(str) == \E i \in DOMAIN str : str[i] = "@"

\* the lookup asking only for the username as it was typed
findEmailByUsername_ExactCase(username, ok) ==
    LET found == SelectSeq(users, LAMBDA u : u.username = username)
    IN  IF ~ok \/ found = <<>> \/ found[1].email = <<>> THEN <<>>
        ELSE << found[1].email >>

\* findEmailByUsername(username): <<>> for null, <<email>> otherwise; ok is
\* whether the queries went through (the catch block returns null)
findEmailByUsername(username, ok) ==
    LET lower == SelectSeq(users, LAMBDA u : u.username = toLowerCase(username))
        exact == SelectSeq(users, LAMBDA u : u.username = username)
        found == IF lower # <<>> THEN lower ELSE exact
    IN  IF ~ok \/ found = <<>> \/ found[1].email = <<>> THEN <<>>
        ELSE << found[1].email >>

NoUserFound == "No user found with this username"

\* AuthService.signIn(emailOrUsername, password), the call whose outcome is
\* kept in session: passwordOk is whether Firebase accepts the password for
\* the account of the e-mail address
signIn(emailOrUsername, passwordOk, lookupOk) ==
    /\ session = <<>>
    /\ LET email == trim(emailOrUsername)
           isEmail == IncludesAt(email)
           userEmail == IF isEmail THEN <<>> ELSE findEmailByUsername(email, lookupOk)
           address == IF isEmail THEN toLowerCase(email) ELSE userEmail[1]
       IN  session' =
             << IF ~isEmail /\ userEmail = <<>>
                THEN [identifier |-> emailOrUsername, lookupOk |-> lookupOk,
                      attempted |-> <<>>, outcome |-> NoUserFound]
                ELSE [identifier |-> emailOrUsername, lookupOk |-> isEmail \/ lookupOk,
                      attempted |-> << address >>,
                      outcome |-> IF passwordOk /\ \E i \in DOMAIN users :
                                                     users[i].email = address
                                  THEN "signedIn" ELSE "auth/invalid-credential"] >>
    /\ UNCHANGED users
    /\ UNCHANGED <<workshopVars, exportData, liveVars>>
    /\ UNCHANGED <<clockVars, classifyVars, dashVars, screenVars, manageVars>>

\* RegisterScreen.handleRegister -> AuthService.register: the form trims the
\* e-mail address and the username, register stores both lowercased;
\* createUserWithEmailAndPassword refuses an address already in use.  The
\* registrations come before the sign-in that is looked at.
register(email, username) ==
    /\ session = <<>>
    /\ Len(users) < MaxUsers
    /\ \A i \in DOMAIN users : users[i].email # toLowerCase(trim(email))
    /\ users' = Append(users, [username |-> toLowerCase(trim(username)),
                               email |-> toLowerCase(trim(email))])
    /\ UNCHANGED session
    /\ UNCHANGED <<workshopVars, exportData, liveVars>>
    /\ UNCHANGED <<clockVars, classifyVars, dashVars, screenVars, manageVars>>

(* ------------------------------- AuthSpec ------------------------------ *)
NameChars == {"a", "A", "b", " "}
\* what can be typed as a username: not blank
TypedNames ==
    {str \in UNION {[1..k -> NameChars] : k \in 1..MaxNameLen} : trim(str) # <<>>}
TypedEmails == {<<"a", "@">>, <<"A", "@">>, <<"b", "@">>}

AuthInit ==
    /\ zone = NoDst(0)
    /\ now = SpecStart
    /\ reminder = [id |-> "r1", reminderDate |-> Empty, notifyBefore |-> Undefined,
                   status |-> "pending"]
    /\ result = <<>>
    /\ manageStatus = <<>>
    /\ DashIdle
    /\ ScreenIdle
    /\ ManageIdle
    /\ WorkshopIdle
    /\ ExportIdle
    /\ LiveIdle
    /\ users = <<>>
    /\ session = <<>>

AuthNext ==
    \/ \E email \in TypedEmails, username \in TypedNames : register(email, username)
    \/ \E emailOrUsername \in TypedNames \cup TypedEmails :
          \E passwordOk, lookupOk \in BOOLEAN :
             signIn(emailOrUsername, passwordOk, lookupOk)

AuthSpec == AuthInit /\ [][AuthNext]_vars

(* ----------------------------- claims on login -------------------------- *)
\* the users registered under the username typed, in any letter case
Owners(identifier) ==
    {i \in DOMAIN users : users[i].username = toLowerCase(trim(identifier))}

\* C18: a signIn whose identifier has no '@' attempts password
\* authentication with the e-mail address stored for a user registered
\* under that username, whatever the letter case typed, and when no user
\* has that username it fails without attempting password authentication.
C18_UsernameLogin ==
    (session # <<>> /\ ~IncludesAt(session[1].identifier)) =>
        LET s == session[1]
        IN  /\ (Owners(s.identifier) # {} /\ s.lookupOk)
                  => /\ s.attempted # <<>>
                     /\ \E i \in Owners(s.identifier) :
                           s.attempted[1] = users[i].email
            /\ Owners(s.identifier) = {}
                  => s.attempted = <<>> /\ s.outcome = NoUserFound

\* C18 witness: a user registered as "aA" (stored "aa") and with the address
\* "A@" (stored "a@") signed in by typing the username "Aa"
C18_Witness ==
    /\ session # <<>>
    /\ session[1].identifier = <<"A", "a">>
    /\ session[1].outcome = "signedIn"
    /\ session[1].attempted = << <<"a", "@">> >>
    /\ \E i \in DOMAIN users :
          users[i] = [username |-> <<"a", "a">>, email |-> <<"a", "@">>]

(* ------------------------- claims on loadReminders --------------------- *)
\* the fetched reminders that have an id, a date that parses and status
\* pending
Listable(fetched) ==
    {fetched[j].id : j \in {k \in DOMAIN fetched :
                              /\ fetched[k].id # ""
                              /\ fetched[k].reminderDate.kind = "ymd"
                              /\ fetched[k].status = "pending"}}

\* a loadReminders call ends in this step
LoadEnds == \E c \in LoadSlots : loads[c].pc # "idle" /\ loads'[c].pc = "idle"

\* C20: when a loadReminders call completes successfully the displayed list
\* holds exactly the user's fetched reminders that have an id, a parseable
\* date and status pending, each once, in non-decreasing order of
\* daysUntil, and loading is false; when a call fails the list is empty
\* and loading is false.
C20_LoadResult ==
    [][ LoadEnds =>
          /\ ~loading'
          /\ IF lastFetched' = <<>> THEN notifications' = <<>>
             ELSE /\ {notifications'[i].id : i \in DOMAIN notifications'}
                        = Listable(lastFetched'[1])
                  /\ Len(notifications') = Cardinality(Listable(lastFetched'[1]))
                  /\ \A i \in DOMAIN notifications' :
                        /\ notifications'[i].reminder.userId = UserId
                        /\ notifications'[i].reminder.status = "pending"
                  /\ \A i, j \in DOMAIN notifications' :
                        i < j => notifications'[i].daysUntil
                                    <= notifications'[j].daysUntil ]_vars

\* C20 witness: a completed load that fetched a completed reminder, a
\* reminder whose date does not parse and two pending reminders, and shows
\* the two pending ones, the overdue one first.
C20_Witness ==
    /\ ~loading
    /\ lastFetched # <<>>
    /\ \E j \in DOMAIN lastFetched[1] : lastFetched[1][j].status = "completed"
    /\ Len(notifications) = 2
    /\ notifications[1].daysUntil < 0
    /\ notifications[2].daysUntil > 0


(* ------------------------ Claims on overlapping loads ------------------ *)
NoLoadInFlight == \A c \in DOMAIN loads : loads[c].pc = "idle"

\* the reminders a dismiss or complete action has succeeded on
ActedOn == {id \in DOMAIN dbReminders :
               dbReminders[id] # <<>> /\ dbReminders[id][1].status # "pending"}

\* C21: once a dismiss or complete action has succeeded and no loadReminders
\* call is in flight, the displayed list does not contain that reminder,
\* whatever the order in which overlapping loads complete
C21_ActedReminderGone ==
    NoLoadInFlight =>
        \A i \in DOMAIN notifications : notifications[i].id \notin ActedOn

(* ------------------------------ AuthContext ---------------------------- *)
AllUids == <<"u1", "u2", "u3">>
Uids == {AllUids[i] : i \in 1..MaxAccounts}

ContextFrame ==
    UNCHANGED <<clockVars, classifyVars, dashVars, screenVars, manageVars,
                workshopVars, exportData, authVars, finderVars, photoVars, editVars>>

\* how an AuthContext operation ended
Ended(op, uid, ok, had) == << [op |-> op, uid |-> uid, ok |-> ok, had |-> had] >>

\* onAuthStateChanged calls the callback with a user: getCurrentUser reads
\* auth.currentUser and sends getDoc(users/uid)
StartCallback(c, uid) ==
    /\ authCallbacks[c].pc = "idle"
    /\ \A d \in CallbackSlots : d < c => authCallbacks[d].pc # "idle"
    /\ authCallbacks' =
          [authCallbacks EXCEPT ![c] = [pc |-> "getDoc", uid |-> uid, found |-> FALSE]]

\* getCurrentUser's getDoc is served: the snapshot says whether the
\* document exists at this moment
CallbackReads(c) ==
    /\ authCallbacks[c].pc = "getDoc"
    /\ authCallbacks' =
          [authCallbacks EXCEPT ![c] = [pc |-> "resolved", uid |-> @.uid,
                                        found |-> @.uid \in userDocs]]
    /\ UNCHANGED <<accounts, userDocs, currentUser, user, authOp, authDone>>
    /\ ContextFrame

\* getCurrentUser's getDoc throws: its catch block returns null
CallbackReadFails(c) ==
    /\ authCallbacks[c].pc = "getDoc"
    /\ authCallbacks' =
          [authCallbacks EXCEPT ![c] = [pc |-> "resolved", uid |-> @.uid,
                                        found |-> FALSE]]
    /\ UNCHANGED <<accounts, userDocs, currentUser, user, authOp, authDone>>
    /\ ContextFrame

\* the callback resumes after await AuthService.getCurrentUser():
\* setUser(userData), the user of the snapshot or null
CallbackResumes(c) ==
    /\ authCallbacks[c].pc = "resolved"
    /\ user' = IF authCallbacks[c].found THEN << authCallbacks[c].uid >> ELSE <<>>
    /\ authCallbacks' = [authCallbacks EXCEPT ![c] = IdleCallback]
    /\ UNCHANGED <<accounts, userDocs, currentUser, authOp, authDone>>
    /\ ContextFrame

\* signUp: createUserWithEmailAndPassword resolves, the account exists and
\* is signed in, the auth-state callback starts; register goes on to
\* updateProfile and setDoc
CreateUserReturns(uid, c) ==
    /\ authOp.pc = "idle"
    /\ currentUser = <<>>
    /\ uid \notin accounts
    /\ accounts' = accounts \cup {uid}
    /\ currentUser' = << uid >>
    /\ StartCallback(c, uid)
    /\ authOp' = [pc |-> "setDoc", uid |-> uid, had |-> uid \in userDocs]
    /\ UNCHANGED <<userDocs, user, authDone>>
    /\ ContextFrame

\* register's setDoc writes the profile document
SetDocWrites ==
    /\ authOp.pc = "setDoc"
    /\ userDocs' = userDocs \cup {authOp.uid}
    /\ authOp' = [authOp EXCEPT !.pc = "registered"]
    /\ UNCHANGED <<accounts, currentUser, user, authCallbacks, authDone>>
    /\ ContextFrame

\* register returns the new user: signUp calls setUser(newUser)
RegisterReturns ==
    /\ authOp.pc = "registered"
    /\ user' = << authOp.uid >>
    /\ authDone' = Ended("signUp", authOp.uid, TRUE, authOp.had)
    /\ authOp' = IdleAuthOp
    /\ UNCHANGED <<accounts, userDocs, currentUser, authCallbacks>>
    /\ ContextFrame

\* updateProfile or setDoc throws: register throws, signUp with it
RegisterFails ==
    /\ authOp.pc = "setDoc"
    /\ authDone' = Ended("signUp", authOp.uid, FALSE, authOp.had)
    /\ authOp' = IdleAuthOp
    /\ UNCHANGED <<accounts, userDocs, currentUser, user, authCallbacks>>
    /\ ContextFrame

\* signIn: signInWithEmailAndPassword resolves, the auth-state callback
\* starts; AuthService.signIn goes on to getDoc
SignInWithPasswordReturns(uid, c) ==
    /\ authOp.pc = "idle"
    /\ currentUser = <<>>
    /\ uid \in accounts
    /\ currentUser' = << uid >>
    /\ StartCallback(c, uid)
    /\ authOp' = [pc |-> "getDoc", uid |-> uid, had |-> uid \in userDocs]
    /\ UNCHANGED <<accounts, userDocs, user, authDone>>
    /\ ContextFrame

\* AuthService.signIn's getDoc returns: the user data and setUser(userData),
\* or 'User data not found' when the document does not exist
SignInReturns ==
    /\ authOp.pc = "getDoc"
    /\ IF authOp.uid \in userDocs
       THEN /\ user' = << authOp.uid >>
            /\ authDone' = Ended("signIn", authOp.uid, TRUE, authOp.had)
       ELSE /\ user' = user
            /\ authDone' = Ended("signIn", authOp.uid, FALSE, authOp.had)
    /\ authOp' = IdleAuthOp
    /\ UNCHANGED <<accounts, userDocs, currentUser, authCallbacks>>
    /\ ContextFrame

\* signOut: signOut(auth) resolves, the auth-state callback runs with null
\* (setUser(null)) and AuthContext.signOut calls setUser(null)
SignOut ==
    /\ authOp.pc = "idle"
    /\ currentUser' = <<>>
    /\ user' = <<>>
    /\ authDone' = Ended("signOut", IF currentUser # <<>> THEN currentUser[1] ELSE "", TRUE,
                       currentUser # <<>> /\ currentUser[1] \in userDocs)
    /\ UNCHANGED <<accounts, userDocs, authCallbacks, authOp>>
    /\ ContextFrame

\* deleteAccount: deleteDoc(users/uid) resolves; deleteUser is called next
DeleteDocReturns ==
    /\ authOp.pc = "idle"
    /\ currentUser # <<>>
    /\ userDocs' = userDocs \ {currentUser[1]}
    /\ authOp' = [pc |-> "deleteUser", uid |-> currentUser[1],
                   had |-> currentUser[1] \in userDocs]
    /\ UNCHANGED <<accounts, currentUser, user, authCallbacks, authDone>>
    /\ ContextFrame

\* deleteUser resolves: the account is gone and signed out, the auth-state
\* callback runs with null and AuthContext.deleteAccount calls setUser(null)
DeleteUserReturns ==
    /\ authOp.pc = "deleteUser"
    /\ accounts' = accounts \ {authOp.uid}
    /\ currentUser' = <<>>
    /\ user' = <<>>
    /\ authDone' = Ended("deleteAccount", authOp.uid, TRUE, authOp.had)
    /\ authOp' = IdleAuthOp
    /\ UNCHANGED <<userDocs, authCallbacks>>
    /\ ContextFrame

\* deleteAccount throws 'Failed to delete account': nobody is signed in, or
\* deleteDoc throws (pc idle), or deleteUser throws (for one,
\* auth/requires-recent-login)
DeleteAccountFails ==
    /\ authOp.pc \in {"idle", "deleteUser"}
    /\ authDone' =
          IF authOp.pc = "deleteUser"
          THEN Ended("deleteAccount", authOp.uid, FALSE, authOp.had)
          ELSE IF currentUser # <<>>
               THEN Ended("deleteAccount", currentUser[1], FALSE,
                          currentUser[1] \in userDocs)
               ELSE Ended("deleteAccount", "", FALSE, FALSE)
    /\ authOp' = IdleAuthOp
    /\ UNCHANGED <<accounts, userDocs, currentUser, user, authCallbacks>>
    /\ ContextFrame

ContextInit ==
    /\ zone = NoDst(0)
    /\ now = SpecStart
    /\ reminder = [id |-> "r1", reminderDate |-> Empty, notifyBefore |-> Undefined,
                   status |-> "pending"]
    /\ result = <<>>
    /\ manageStatus = <<>>
    /\ DashIdle
    /\ ScreenIdle
    /\ ManageIdle
    /\ WorkshopIdle
    /\ ExportIdle
    /\ AuthIdle
    /\ ContextIdle
    /\ FinderIdle
    /\ PhotoIdle
    /\ EditIdle

ContextNext ==
    \/ \E c \in CallbackSlots : CallbackReads(c)
    \/ \E c \in CallbackSlots : CallbackReadFails(c)
    \/ \E c \in CallbackSlots : CallbackResumes(c)
    \/ \E uid \in Uids, c \in CallbackSlots : CreateUserReturns(uid, c)
    \/ SetDocWrites
    \/ RegisterReturns
    \/ RegisterFails
    \/ \E uid \in Uids, c \in CallbackSlots : SignInWithPasswordReturns(uid, c)
    \/ SignInReturns
    \/ SignOut
    \/ DeleteDocReturns
    \/ DeleteUserReturns
    \/ DeleteAccountFails

ContextSpec == ContextInit /\ [][ContextNext]_vars

(* --------------------------- Claims on AuthContext --------------------- *)
NoCallbackPending == \A c \in CallbackSlots : authCallbacks[c].pc = "idle"

LastEnded(op, ok) == authDone # <<>> /\ authDone[1].op = op /\ authDone[1].ok = ok

\* C22: after signOut has completed and every pending auth-state callback
\* has finished, the context user is null, also when an earlier callback
\* still awaited getCurrentUser at the sign-out
C22_SignedOutUserNull ==
    (LastEnded("signOut", TRUE) /\ authOp.pc = "idle" /\ NoCallbackPending)
        => user = <<>>

\* C23: after signUp has resolved successfully and every pending auth-state
\* callback has finished, the context user is the newly registered user,
\* however the callback's profile read and the registration's write of the
\* profile document interleave
C23_SignedUpUserSet ==
    (LastEnded("signUp", TRUE) /\ authOp.pc = "idle" /\ NoCallbackPending)
        => user = << authDone[1].uid >>

\* C24: deleteAccount leaves the account unchanged on error: whenever it has
\* failed for a user who had a profile document, that document still
\* exists (a sign-in can still load it) and so does the account
C24_FailedDeleteKeepsProfile ==
    (LastEnded("deleteAccount", FALSE) /\ authDone[1].had /\ authOp.pc = "idle")
        => /\ authDone[1].uid \in userDocs
           /\ authDone[1].uid \in accounts

(* ----------------------- EditReminderScreen: the form ------------------ *)
\* The edit form holds strings: '' for an empty field. title and
\* description are sequences of characters (they are trimmed). A stored
\* document holds each field as <<>> (absent) or <<value>>.
EditFields == {"carId", "title", "description", "reminderTime", "notifyBefore"}

\* Number(notifyBefore) for the texts validateForm accepts
Number(text) == CASE text = "0" -> 0 [] text = "2" -> 2

\* the object 'updates' of handleUpdateReminder
Updates(form) ==
    [carId        |-> IF form.selectedCarId # "" THEN << form.selectedCarId >> ELSE Undefined,
     title        |-> << trim(form.title) >>,
     description  |-> IF trim(form.description) # <<>> THEN << trim(form.description) >>
                      ELSE Undefined,
     reminderTime |-> IF form.reminderTime # "" THEN << form.reminderTime >> ELSE Undefined,
     notifyBefore |-> IF form.notifyBefore # "" THEN << Number(form.notifyBefore) >>
                      ELSE Undefined]

\* updateReminder's cleanedUpdates: the entries whose value is not undefined
CleanedKeys(updates) == {k \in EditFields : updates[k] # Undefined}

\* updateDoc(reminderRef, cleanedUpdates): the fields named are set, the
\* others are kept
UpdateDoc(stored, updates) ==
    [k \in EditFields |-> IF k \in CleanedKeys(updates) THEN updates[k] ELSE stored[k]]

\* validateForm
ValidForm(form) ==
    /\ trim(form.title) # <<>>
    /\ form.notifyBefore \in {"", "0", "2"}

EditFrame ==
    UNCHANGED <<clockVars, classifyVars, dashVars, screenVars, manageVars,
                workshopVars, exportData, authVars, contextVars, finderVars, photoVars>>

\* handleUpdateReminder with updateReminder resolving: the Success alert
EditReminderSaves(form) ==
    /\ reminderDoc # <<>>
    /\ editForm = <<>>
    /\ ValidForm(form)
    /\ reminderDoc' = << UpdateDoc(reminderDoc[1], Updates(form)) >>
    /\ editForm' = << form >>
    /\ editAlert' = "Success"
    /\ EditFrame

\* handleUpdateReminder with updateReminder throwing: the Error alert
EditReminderFails(form) ==
    /\ reminderDoc # <<>>
    /\ editForm = <<>>
    /\ ValidForm(form)
    /\ editForm' = << form >>
    /\ editAlert' = "Error"
    /\ UNCHANGED reminderDoc
    /\ EditFrame

\* the documents the add and edit forms can have stored
EditCars == {"c1", "c2"}
EditTexts == {<<"o">>, <<"o", "i">>}
EditTimes == {"09:00"}
EditStored ==
    [carId : {Undefined} \cup {<<c>> : c \in EditCars},
     title : {<<t>> : t \in EditTexts},
     description : {Undefined} \cup {<<t>> : t \in {<<"o">>}},
     reminderTime : {Undefined} \cup {<<t>> : t \in EditTimes},
     notifyBefore : {Undefined, Some(0), Some(2)}]

\* what the form can hold when Update is pressed
EditForms ==
    [selectedCarId : {""} \cup EditCars,
     title : {<<"o">>, <<"o", " ">>},
     description : {<<>>, <<" ">>, <<"i">>},
     reminderTime : {""} \cup EditTimes,
     notifyBefore : {"", "0", "2"}]

EditInit ==
    /\ zone = NoDst(0)
    /\ now = SpecStart
    /\ reminder = [id |-> "r1", reminderDate |-> Empty, notifyBefore |-> Undefined,
                   status |-> "pending"]
    /\ result = <<>>
    /\ manageStatus = <<>>
    /\ DashIdle
    /\ ScreenIdle
    /\ ManageIdle
    /\ WorkshopIdle
    /\ ExportIdle
    /\ AuthIdle
    /\ ContextIdle
    /\ FinderIdle
    /\ PhotoIdle
    /\ reminderDoc \in {<<doc>> : doc \in EditStored}
    /\ editForm = <<>>
    /\ editAlert = ""

EditNext ==
    \/ \E form \in EditForms : EditReminderSaves(form)
    \/ \E form \in EditForms : EditReminderFails(form)

EditSpec == EditInit /\ [][EditNext]_vars

(* ----------------------- Claims on the reminder edit ------------------- *)
\* the optional fields the user left empty in the form
ClearedFields(form) ==
    {k \in {"carId", "description", "reminderTime", "notifyBefore"} :
        CASE k = "carId" -> form.selectedCarId = ""
          [] k = "description" -> trim(form.description) = <<>>
          [] k = "reminderTime" -> form.reminderTime = ""
          [] k = "notifyBefore" -> form.notifyBefore = ""}

\* C25: after a reminder edit has succeeded in which the user cleared an
\* optional field (car, description, time or notify-before), the stored
\* reminder carries no value in that field
C25_ClearedFieldRemoved ==
    (editAlert = "Success" /\ editForm # <<>>)
        => \A k \in ClearedFields(editForm[1]) : reminderDoc[1][k] = Undefined

(* ------------------- WorkshopFinderScreen: the selected card ----------- *)
\* A detail of a place (phone number, website, opening hours) is modelled by
\* the id of the place it belongs to.
DetailFields == {"phoneNumber", "website", "openingHours"}

\* what the Place Details request for a place can return with status OK:
\* each field is that place's, or undefined
DetailsOf(id) == [DetailFields -> {Undefined, << id >>}]

FinderFrame ==
    UNCHANGED <<clockVars, classifyVars, dashVars, screenVars, manageVars,
                workshopVars, exportData, authVars, contextVars, photoVars, editVars>>

\* handleMarkerPress up to its await: setSelectedWorkshop(workshop) and the
\* call of getPlaceDetails(workshop.id); a workshop of the list carries no
\* detail
handleMarkerPress(i, c) ==
    /\ i \in DOMAIN workshops
    /\ detailRequests[c].pc = "idle"
    /\ \A d \in DetailSlots : d < c => detailRequests[d].pc # "idle"
    /\ selectedWorkshop' =
          << [id |-> workshops[i].id, details |-> [f \in DetailFields |-> Undefined]] >>
    /\ detailRequests' = [detailRequests EXCEPT ![c] = [pc |-> "fetch", id |-> workshops[i].id]]
    /\ FinderFrame

\* getPlaceDetails returns details: setSelectedWorkshop(prev => prev ?
\* {...prev, ...details} : null); the spread copies every key of details,
\* the undefined ones too
PlaceDetailsReturn(c) ==
    /\ detailRequests[c].pc = "fetch"
    /\ \E details \in DetailsOf(detailRequests[c].id) :
          selectedWorkshop' =
             IF selectedWorkshop = <<>> THEN <<>>
             ELSE << [selectedWorkshop[1] EXCEPT !.details = details] >>
    /\ detailRequests' = [detailRequests EXCEPT ![c] = IdleRequest]
    /\ FinderFrame

\* getPlaceDetails returns null: the status is not OK, or fetch throws
PlaceDetailsNull(c) ==
    /\ detailRequests[c].pc = "fetch"
    /\ detailRequests' = [detailRequests EXCEPT ![c] = IdleRequest]
    /\ UNCHANGED selectedWorkshop
    /\ FinderFrame

\* the close button of the card, a press on the map, or the search bar
\* emptied: setSelectedWorkshop(null)
CloseCard ==
    /\ selectedWorkshop # <<>>
    /\ selectedWorkshop' = <<>>
    /\ UNCHANGED detailRequests
    /\ FinderFrame

\* a search has found MaxPlaces workshops, no user location
FoundPlaces == [i \in 1..MaxPlaces |-> [id |-> PlaceIds[i], distance |-> Undefined]]

FinderInit ==
    /\ zone = NoDst(0)
    /\ now = SpecStart
    /\ reminder = [id |-> "r1", reminderDate |-> Empty, notifyBefore |-> Undefined,
                   status |-> "pending"]
    /\ result = <<>>
    /\ manageStatus = <<>>
    /\ DashIdle
    /\ ScreenIdle
    /\ ManageIdle
    /\ places = FoundPlaces
    /\ workshops = SortWorkshops(FoundPlaces)
    /\ searched = TRUE
    /\ ExportIdle
    /\ AuthIdle
    /\ ContextIdle
    /\ FinderIdle
    /\ PhotoIdle
    /\ EditIdle

FinderNext ==
    \/ \E i \in 1..MaxPlaces, c \in DetailSlots : handleMarkerPress(i, c)
    \/ \E c \in DetailSlots : PlaceDetailsReturn(c)
    \/ \E c \in DetailSlots : PlaceDetailsNull(c)
    \/ CloseCard

FinderSpec == FinderInit /\ [][FinderNext]_vars

(* ---------------------- Claims on the selected card -------------------- *)
\* C26: the phone number, website and opening hours shown for the selected
\* workshop always belong to that workshop, also when another workshop was
\* selected first and its details request returns later
C26_DetailsOfSelected ==
    selectedWorkshop # <<>> =>
        \A f \in DetailFields :
            selectedWorkshop[1].details[f] # Undefined
                => selectedWorkshop[1].details[f][1] = selectedWorkshop[1].id

(* ------------------------ CarDetailsScreen: photos --------------------- *)
\* A download URL is modelled by the number of the upload that made the
\* object: uploadCarImage names each object with Date.now().
PhotoFrame ==
    UNCHANGED <<clockVars, classifyVars, dashVars, screenVars, manageVars,
                workshopVars, exportData, authVars, contextVars, finderVars, editVars>>

\* a handler call begins in the lowest free slot
StartPhotoOp(c, pc, url) ==
    /\ photoOps[c].pc = "idle"
    /\ \A d \in PhotoSlots : d < c => photoOps[d].pc # "idle"
    /\ photoOps' = [photoOps EXCEPT ![c] = [pc |-> pc, url |-> url]]

\* useEffect: loadCarDetails outside the handlers, getCar resolving
loadCarDetails ==
    /\ car # imageUrls
    /\ car' = imageUrls
    /\ UNCHANGED <<storage, imageUrls, uploadingImage, deletingImage, photoOps, uploads>>
    /\ PhotoFrame

\* handleTakePhoto / handlePickFromGallery up to the first await: the Add
\* Photo button is disabled while uploadingImage
StartAddPhoto(c) ==
    /\ ~uploadingImage
    /\ uploads < MaxPhotos
    /\ uploadingImage' = TRUE
    /\ StartPhotoOp(c, "picker", 0)
    /\ UNCHANGED <<storage, imageUrls, car, deletingImage, uploads>>
    /\ PhotoFrame

\* takePhoto / pickImage returns null: no permission, or cancelled
PickerCancels(c) ==
    /\ photoOps[c].pc = "picker"
    /\ uploadingImage' = FALSE
    /\ photoOps' = [photoOps EXCEPT ![c] = IdlePhotoOp]
    /\ UNCHANGED <<storage, imageUrls, car, deletingImage, uploads>>
    /\ PhotoFrame

\* takePhoto / pickImage returns a uri: uploadCarImage is called
PickerReturns(c) ==
    /\ photoOps[c].pc = "picker"
    /\ photoOps' = [photoOps EXCEPT ![c] = [pc |-> "uploadCarImage", url |-> 0]]
    /\ UNCHANGED <<storage, imageUrls, car, uploadingImage, deletingImage, uploads>>
    /\ PhotoFrame

\* uploadCarImage returns the download URL of the object uploadBytes made;
\* addCarImage is called with it
UploadReturns(c) ==
    /\ photoOps[c].pc = "uploadCarImage"
    /\ storage' = storage \cup {uploads + 1}
    /\ uploads' = uploads + 1
    /\ photoOps' = [photoOps EXCEPT ![c] = [pc |-> "addCarImage", url |-> uploads + 1]]
    /\ UNCHANGED <<imageUrls, car, uploadingImage, deletingImage>>
    /\ PhotoFrame

\* uploadCarImage throws, before uploadBytes made the object or after it
\* (getDownloadURL throws): the catch block and the finally block
UploadFails(c) ==
    /\ photoOps[c].pc = "uploadCarImage"
    /\ \/ UNCHANGED <<storage, uploads>>
       \/ /\ storage' = storage \cup {uploads + 1}
          /\ uploads' = uploads + 1
    /\ uploadingImage' = FALSE
    /\ photoOps' = [photoOps EXCEPT ![c] = IdlePhotoOp]
    /\ UNCHANGED <<imageUrls, car, deletingImage>>
    /\ PhotoFrame

\* DatabaseService.addCarImage(carId, downloadURL) resolves: the URL is in
\* the car's imageUrls; loadCarDetails is called
AddCarImageReturns(c) ==
    /\ photoOps[c].pc = "addCarImage"
    /\ imageUrls' = imageUrls \cup {photoOps[c].url}
    /\ photoOps' = [photoOps EXCEPT ![c].pc = "loadAfterAdd"]
    /\ UNCHANGED <<storage, car, uploadingImage, deletingImage, uploads>>
    /\ PhotoFrame

\* addCarImage throws: the catch block and the finally block
AddCarImageFails(c) ==
    /\ photoOps[c].pc = "addCarImage"
    /\ uploadingImage' = FALSE
    /\ photoOps' = [photoOps EXCEPT ![c] = IdlePhotoOp]
    /\ UNCHANGED <<storage, imageUrls, car, deletingImage, uploads>>
    /\ PhotoFrame

\* the Delete button of the dialog for a photo shown, up to the first
\* await: the photo's button is disabled while deletingImage is its URL
handleDeleteImage_ObjectFirst(url, c) ==
    /\ url \in car
    /\ deletingImage # << url >>
    /\ deletingImage' = << url >>
    /\ storage' = storage \ {url}
    /\ StartPhotoOp(c, "removeCarImage", url)
    /\ UNCHANGED <<imageUrls, car, uploadingImage, uploads>>
    /\ PhotoFrame

handleDeleteImage(url, c) ==
    /\ url \in car
    /\ deletingImage # << url >>
    /\ deletingImage' = << url >>
    /\ StartPhotoOp(c, "removeCarImage", url)
    /\ UNCHANGED <<storage, imageUrls, car, uploadingImage, uploads>>
    /\ PhotoFrame

\* DatabaseService.removeCarImage(carId, imageUrl) resolves: the URL is no
\* longer in the car's imageUrls; deleteCarImage is called
RemoveCarImageReturns(c) ==
    /\ photoOps[c].pc = "removeCarImage"
    /\ imageUrls' = imageUrls \ {photoOps[c].url}
    /\ photoOps' = [photoOps EXCEPT ![c].pc = "deleteCarImage"]
    /\ UNCHANGED <<storage, car, uploadingImage, deletingImage, uploads>>
    /\ PhotoFrame

\* deleteCarImage resolves: deleteObject removed the object; loadCarDetails
\* is called
DeleteCarImageReturns(c) ==
    /\ photoOps[c].pc = "deleteCarImage"
    /\ photoOps[c].url \in storage
    /\ storage' = storage \ {photoOps[c].url}
    /\ photoOps' = [photoOps EXCEPT ![c].pc = "loadAfterDelete"]
    /\ UNCHANGED <<imageUrls, car, uploadingImage, deletingImage, uploads>>
    /\ PhotoFrame

\* removeCarImage or deleteCarImage throws (the object is gone already, or
\* the request fails): the catch block and the finally block
DeleteImageFails(c) ==
    /\ photoOps[c].pc \in {"removeCarImage", "deleteCarImage"}
    /\ deletingImage' = <<>>
    /\ photoOps' = [photoOps EXCEPT ![c] = IdlePhotoOp]
    /\ UNCHANGED <<storage, imageUrls, car, uploadingImage, uploads>>
    /\ PhotoFrame

\* the handler's await loadCarDetails() ends, getCar having resolved
\* (setCar) or thrown (its own catch block), and the finally block runs
HandlerLoadEnds(c) ==
    /\ photoOps[c].pc \in {"loadAfterAdd", "loadAfterDelete"}
    /\ car' \in {imageUrls, car}
    /\ IF photoOps[c].pc = "loadAfterAdd"
       THEN uploadingImage' = FALSE /\ UNCHANGED deletingImage
       ELSE deletingImage' = <<>> /\ UNCHANGED uploadingImage
    /\ photoOps' = [photoOps EXCEPT ![c] = IdlePhotoOp]
    /\ UNCHANGED <<storage, imageUrls, uploads>>
    /\ PhotoFrame

PhotoInit ==
    /\ zone = NoDst(0)
    /\ now = SpecStart
    /\ reminder = [id |-> "r1", reminderDate |-> Empty, notifyBefore |-> Undefined,
                   status |-> "pending"]
    /\ result = <<>>
    /\ manageStatus = <<>>
    /\ DashIdle
    /\ ScreenIdle
    /\ ManageIdle
    /\ WorkshopIdle
    /\ ExportIdle
    /\ AuthIdle
    /\ ContextIdle
    /\ FinderIdle
    /\ PhotoIdle
    /\ EditIdle

PhotoNext ==
    \/ loadCarDetails
    \/ \E c \in PhotoSlots : StartAddPhoto(c)
    \/ \E c \in PhotoSlots : PickerCancels(c)
    \/ \E c \in PhotoSlots : PickerReturns(c)
    \/ \E c \in PhotoSlots : UploadReturns(c)
    \/ \E c \in PhotoSlots : UploadFails(c)
    \/ \E c \in PhotoSlots : AddCarImageReturns(c)
    \/ \E c \in PhotoSlots : AddCarImageFails(c)
    \/ \E url \in 1..MaxPhotos, c \in PhotoSlots : handleDeleteImage(url, c)
    \/ \E c \in PhotoSlots : RemoveCarImageReturns(c)
    \/ \E c \in PhotoSlots : DeleteCarImageReturns(c)
    \/ \E c \in PhotoSlots : DeleteImageFails(c)
    \/ \E c \in PhotoSlots : HandlerLoadEnds(c)

PhotoSpec == PhotoInit /\ [][PhotoNext]_vars

====
